---- MODULE Spec2Model ----
(***************************************************************************)
(* Simulation-run database of simulation/model/eval.py: the spinup run    *)
(* chains of the parameter sets, the resolution of a spinup request       *)
(* (Model_Database.matching_run_dir) and the jobs it launches.            *)
(*                                                                         *)
(* A run directory is the pair <<i, k>>: i the index of the parameter set *)
(* in the parameter store, k the run index inside its spinup directory    *)
(* (run_00000 is k = 0).  Tolerances are integers (a fixed small unit).   *)
(***************************************************************************)
EXTENDS Integers, Sequences, FiniteSets, TLC

VARIABLES
    parameters_db,                  \* the stored parameter vectors, position = index + 1
    run_dirs,                       \* run_dirs[i]: the jobs of the runs of parameter set i, run 0 first
    start_from_closest_parameters,  \* Model_Database.start_from_closest_parameters
    model_options,                  \* the request: parameters and spinup_options
    pc,                             \* where the orchestrator is
    call,                           \* the active matching_run_dir call: its options and locals
    result,                         \* what the operation returned or raised
    op,                             \* the public operation under way and the locals of _df
    derivative_dirs,                \* the partial derivative directories of the derivative directory
    open_jobs,                      \* the number of Metos3D_Job objects that are open (inside a with block)
    submitted,                      \* the jobs started since the operation began, in order
    faults                          \* whether the file system and the batch system may fail

vars == <<parameters_db, run_dirs, start_from_closest_parameters, model_options, pc, call, result,
          op, derivative_dirs, open_jobs, submitted, faults>>

(* the state of the derivative engine *)
df_vars == <<op, derivative_dirs, open_jobs, submitted, faults>>

-----------------------------------------------------------------------------
(* Bounds of the model. *)

MaxParam == 2        \* parameter vectors are the integers 0..MaxParam
MaxTol == 2          \* tolerances are 0..MaxTol
InitRuns == 2        \* the database a session starts from holds chains of at most InitRuns runs
MaxLen == 2          \* data set arrays hold at most MaxLen values
MaxStep == 5         \* a stencil point is at most MaxStep fine units away from the base point
Fine == 4            \* fine units per unit of the factor id precision (10^-PRECISION)

(* simulation.model.constants.MODEL_SPINUP_MAX_YEARS, scaled to the model's years *)
model_spinup_max_years == 3

MaxYears == model_spinup_max_years    \* requested years are 0..MaxYears

ParamTol == 1        \* two parameter vectors within ParamTol are equal for the store

ParamValues == 0..MaxParam
Tols == 0..MaxTol
Combinations == {"and", "or"}
MatchTypes == {"exact", "equal_or_nearest_better"}

None == <<-1, -1>>       \* no run directory
Initial == <<-2, -2>>    \* the configured initial concentrations (no warm start)

SpinupOptions == [years : 0..MaxYears, tolerance : Tols, combination : Combinations, match_type : MatchTypes]

NoOptions == [years |-> 0, tolerance |-> 0, combination |-> "none", match_type |-> "none"]
NoCall == [spinup_options |-> NoOptions, phase |-> 0, last_run_dir |-> None, run_dir |-> None]
NoRequest == [parameters |-> -1, spinup_options |-> NoOptions]
NoResult == [kind |-> "none", run_dir |-> None, value |-> FALSE, years |-> 0]

SetIndices == 0..MaxParam    \* the indices the store can hand out

(* no public operation of the value and derivative engines under way *)
NoOp == [kind |-> "none"]

(* the factor ids of the stencil points of the model: for each changed
   parameter its index and its step multiplier in units of the precision *)
FactorIds == {<<<<-1, 0>>>>, <<<<0, 1>>>>, <<<<0, -1>>>>, <<<<1, 1>>>>}

(* what a partial derivative directory holds: nothing ("none"), files without a
   readable job record ("malformed"), or a job ("job") with what it achieved,
   the spinup run it was started from and the parameters it was started for *)
PartialDerivativeRun(state, last_year, last_tolerance, finished, tracer_input, parameters) ==
    [state |-> state, last_year |-> last_year, last_tolerance |-> last_tolerance,
     finished |-> finished, tracer_input |-> tracer_input, parameters |-> parameters]

NoRun == PartialDerivativeRun("none", 0, 0, FALSE, None, <<>>)
NoDerivativeDirs == [id \in FactorIds |-> NoRun]

Abs(x) == IF x < 0 THEN -x ELSE x
Min(a, b) == IF a < b THEN a ELSE b

-----------------------------------------------------------------------------
(* The parameter store (util.index_database): a consumed interface. *)

are_values_equal(a, b) == Abs(a - b) <= ParamTol

(* the stored index equal to the vector within tolerance, or -1 *)
db_index(db, v) ==
    LET close == {i \in 0..(Len(db) - 1) : are_values_equal(db[i + 1], v)}
    IN IF close = {} THEN -1 ELSE CHOOSE i \in close : \A j \in close : i <= j

get_or_add_index(db, v) ==
    IF db_index(db, v) >= 0
    THEN [db |-> db, index |-> db_index(db, v)]
    ELSE [db |-> Append(db, v), index |-> Len(db)]

(* the indices of the stored vectors nearest to v, whatever the tolerance *)
closest_index(db, v) ==
    {i \in 0..(Len(db) - 1) : \A j \in 0..(Len(db) - 1) : Abs(db[i + 1] - v) <= Abs(db[j + 1] - v)}

-----------------------------------------------------------------------------
(* Run directories and their jobs. *)

(* Model_Database.run_dirs: a spinup directory that does not exist has no run *)
run_dirs_of(i) == IF i \in SetIndices THEN run_dirs[i] ELSE <<>>

job(run_dir) == run_dirs[run_dir[1]][run_dir[2] + 1]

last_run_dir(i) ==
    LET last_run_index == Len(run_dirs_of(i)) - 1
    IN IF last_run_index >= 0 THEN <<i, last_run_index>> ELSE None

previous_run_dir(run_dir) ==
    IF run_dir[2] > 0 THEN <<run_dir[1], run_dir[2] - 1>> ELSE None

(* real_years with the loop ending one run early: run 0 is never added *)
RECURSIVE real_years_without_first_run(_, _, _)
real_years_without_first_run(dirs, run_dir, include_previous_runs) ==
    LET years == dirs[run_dir[1]][run_dir[2] + 1].last_year
        previous == previous_run_dir(run_dir)
    IN IF include_previous_runs /\ previous # None /\ previous[2] > 0
       THEN years + real_years_without_first_run(dirs, previous, include_previous_runs)
       ELSE years

(* real_years on the run directories dirs: the loop over the previous runs *)
RECURSIVE real_years_in(_, _, _)
real_years_in(dirs, run_dir, include_previous_runs) ==
    LET years == dirs[run_dir[1]][run_dir[2] + 1].last_year
        previous == previous_run_dir(run_dir)
    IN IF include_previous_runs /\ previous # None
       THEN years + real_years_in(dirs, previous, include_previous_runs)
       ELSE years

real_years(run_dir, include_previous_runs) == real_years_in(run_dirs, run_dir, include_previous_runs)

real_tolerance(run_dir) == job(run_dir).last_tolerance

(* is_matching with the years compared by > *)
is_matching_years_exceeded(run_years, run_tolerance, years, tolerance, combination, max_years) ==
    IF combination = "and"
    THEN (run_years > years /\ run_tolerance <= tolerance) \/ run_years >= max_years
    ELSE run_years > years \/ run_tolerance <= tolerance

(* is_matching without the maximum of spinup years *)
is_matching_without_max_years(run_years, run_tolerance, years, tolerance, combination, max_years) ==
    IF combination = "and"
    THEN run_years >= years /\ run_tolerance <= tolerance
    ELSE run_years >= years \/ run_tolerance <= tolerance

(* the decision of is_run_matching_options on the values read from the run *)
is_matching(run_years, run_tolerance, years, tolerance, combination, max_years) ==
    IF combination = "and"
    THEN (run_years >= years /\ run_tolerance <= tolerance) \/ run_years >= max_years
    ELSE run_years >= years \/ run_tolerance <= tolerance

is_run_matching_options(run_dir, spinup_options, include_previous_runs) ==
    IF run_dir # None
    THEN is_matching(real_years(run_dir, include_previous_runs), real_tolerance(run_dir),
                     spinup_options.years, spinup_options.tolerance,
                     spinup_options.combination, model_spinup_max_years)
    ELSE FALSE

(* is_run_matching_options raises ValueError for any other combination *)
is_combination_known(combination) == combination \in {"and", "or"}

(* matching_run_dir, the walk back of match type equal_or_nearest_better *)
RECURSIVE nearest_better_run_dir(_, _)
nearest_better_run_dir(run_dir, spinup_options) ==
    LET previous == previous_run_dir(run_dir)
    IN IF is_run_matching_options(previous, spinup_options, TRUE)
       THEN nearest_better_run_dir(previous, spinup_options)
       ELSE run_dir

matched_run_dir(last, spinup_options) ==
    IF spinup_options.match_type = "equal_or_nearest_better"
    THEN nearest_better_run_dir(last, spinup_options)
    ELSE last

-----------------------------------------------------------------------------
(* The jobs (simulation.model.job.Metos3D_Job): a consumed interface. *)

(* what a job configured for years and tolerance can achieve: it runs until the
   years are reached, or stops earlier once the tolerance is met *)
job_outcomes(years, tolerance) ==
    IF years <= 0
    THEN {[last_year |-> 0, last_tolerance |-> t] : t \in Tols}
    ELSE {[last_year |-> years, last_tolerance |-> t] : t \in Tols}
         \cup {[last_year |-> y, last_tolerance |-> t] : y \in 1..(years - 1), t \in 0..Min(tolerance, MaxTol)}

(* a wait that returns at once *)
wait_until_finished_at_once(run_dir) == TRUE

(* Metos3D_Job.wait_until_finished returns once the job has finished *)
wait_until_finished(run_dir) == job(run_dir).finished

(* start_run: the job written, started and its input made read-only *)
start_run(years, tolerance, tracer_input) ==
    [last_year |-> 0, last_tolerance |-> MaxTol, years |-> years, tolerance |-> tolerance,
     tracer_input |-> tracer_input, finished |-> FALSE,
     read_only_input |-> TRUE, read_only_output |-> FALSE]

(* wait_until_run_finished, after the wait: input and output are read-only *)
made_read_only(dirs, run_dir) ==
    [dirs EXCEPT ![run_dir[1]][run_dir[2] + 1].read_only_input = TRUE,
                 ![run_dir[1]][run_dir[2] + 1].read_only_output = TRUE]

(* the directory of the last run taken again for the new run *)
make_new_run_dir_of_last_run(i) ==
    <<i, IF Len(run_dirs_of(i)) > 0 THEN Len(run_dirs_of(i)) - 1 ELSE 0>>

(* make_new_run_dir: the next run index is the number of run directories *)
make_new_run_dir(i) == <<i, Len(run_dirs_of(i))>>

(* the input files of the run taken for its output files *)
tracer_input_files(run_dir) == job(run_dir).tracer_input

(* Metos3D_Job.tracer_output_files: the output files of a run stand for the run *)
tracer_output_files(run_dir) == run_dir

(* the years of the new run without the years of the run it starts from *)
new_run_years_not_reduced(last, spinup_options) == spinup_options.years

(* the years of the new run: what is left after the years of the run it starts from *)
new_run_years(last, spinup_options) ==
    IF last # None
    THEN spinup_options.years - real_years(last, TRUE)
    ELSE spinup_options.years

-----------------------------------------------------------------------------
(* matching_run_dir, step by step: it blocks in wait_until_run_finished. *)

Returned(run_dir) == [NoResult EXCEPT !.kind = "run_dir", !.run_dir = run_dir]
Raised(exception) == [NoResult EXCEPT !.kind = exception]

(* a call that keeps the combination of the request *)
SubCallWithRequestedCombination(years, tolerance, match_type, phase) ==
    [spinup_options |-> [years |-> years, tolerance |-> tolerance,
                         combination |-> model_options.spinup_options.combination,
                         match_type |-> match_type],
     phase |-> phase, last_run_dir |-> None, run_dir |-> None]

(* a call that keeps the tolerance of the request *)
SubCallWithRequestedTolerance(years, tolerance, match_type, phase) ==
    [spinup_options |-> [years |-> years, tolerance |-> model_options.spinup_options.tolerance,
                         combination |-> "or", match_type |-> match_type],
     phase |-> phase, last_run_dir |-> None, run_dir |-> None]

(* a call of matching_run_dir by its "and" branch; the SpinupOptions it builds
   name no match_type and get the default one, which is not known here *)
SubCall(years, tolerance, match_type, phase) ==
    [spinup_options |-> [years |-> years, tolerance |-> tolerance, combination |-> "or",
                         match_type |-> match_type],
     phase |-> phase, last_run_dir |-> None, run_dir |-> None]

(* the with block of a Metos3D_Job left without closing the job *)
exit_job_skipped(jobs) == jobs

(* the with block of a Metos3D_Job is left, by return or by exception *)
exit_job(jobs) == jobs - 1

(* the with block of a Metos3D_Job is entered *)
enter_job(jobs) == jobs + 1

(* the jobs started so far and one more *)
job_started(kind, dir) == Append(submitted, [kind |-> kind, dir |-> dir])

(* the return of a matching_run_dir call: to the caller (a value or derivative
   operation goes on from "resolved"), or to the "and" branch of the outer
   call, which goes on with its second call *)
return_run_dir(run_dir) ==
    IF call.phase = 1
    THEN /\ pc' = "enter"
         /\ call' = SubCall(model_spinup_max_years, model_options.spinup_options.tolerance,
                            call.spinup_options.match_type, 2)
         /\ result' = result
    ELSE /\ pc' = IF op.kind = "none" THEN "done" ELSE "resolved"
         /\ call' = NoCall
         /\ result' = Returned(run_dir)

(* the part after "finish last run": the new run of an "or" request, the two
   calls of an "and" request; dirs is run_dirs as the wait left it *)
make_new_run(i, last, dirs) ==
    LET spinup_options == call.spinup_options
        run_dir == make_new_run_dir(i)
        years == new_run_years(last, spinup_options)
        tracer_input == IF last # None THEN tracer_output_files(last) ELSE Initial
    IN IF spinup_options.combination = "or"
       THEN /\ run_dirs' = [dirs EXCEPT ![i] = Append(@, start_run(years, spinup_options.tolerance, tracer_input))]
            /\ pc' = "wait_new"
            /\ call' = [call EXCEPT !.last_run_dir = last, !.run_dir = run_dir]
            /\ result' = result
       ELSE \/ /\ run_dirs' = dirs
               /\ pc' = "enter"
               /\ \E match_type \in MatchTypes :
                     call' = SubCall(spinup_options.years, 0, match_type, 1)
               /\ result' = result
            \/ /\ spinup_options.combination # "and"
               /\ run_dirs' = dirs
               /\ pc' = "error"
               /\ call' = NoCall
               /\ result' = Raised("AssertionError")

(* closest_parameter_set_dir: the index of the closest stored parameter set,
   or -1 (None) when it has no run *)
closest_parameter_set_dir(db, v) ==
    {IF last_run_dir(c) = None THEN -1 ELSE c : c \in closest_index(db, v)}

(* a caller sets the model options and asks for the run directory *)
run_dir(parameters, spinup_options) ==
    /\ pc = "idle"
    /\ model_options' = [parameters |-> parameters, spinup_options |-> spinup_options]
    /\ pc' = "enter"
    /\ call' = [spinup_options |-> spinup_options, phase |-> 0, last_run_dir |-> None, run_dir |-> None]
    /\ result' = NoResult
    /\ UNCHANGED <<parameters_db, run_dirs, start_from_closest_parameters, df_vars>>

(* matching_run_dir up to its first wait *)
matching_run_dir ==
    /\ pc = "enter"
    /\ LET spinup_options == call.spinup_options
           got == get_or_add_index(parameters_db, model_options.parameters)
           last == last_run_dir(got.index)
       IN /\ parameters_db' = got.db
          /\ IF last # None /\ ~is_combination_known(spinup_options.combination)
             THEN /\ pc' = "error"
                  /\ call' = NoCall
                  /\ result' = Raised("ValueError")
                  /\ run_dirs' = run_dirs
             ELSE IF is_run_matching_options(last, spinup_options, TRUE)
             THEN /\ return_run_dir(matched_run_dir(last, spinup_options))
                  /\ run_dirs' = run_dirs
             ELSE IF last = None /\ start_from_closest_parameters
             THEN \E closest \in closest_parameter_set_dir(got.db, model_options.parameters) :
                     IF closest = -1
                     THEN /\ pc' = "error"
                          /\ call' = NoCall
                          /\ result' = Raised("TypeError")
                          /\ run_dirs' = run_dirs
                     ELSE /\ pc' = "wait_last"
                          /\ call' = [call EXCEPT !.last_run_dir = last_run_dir(closest)]
                          /\ result' = result
                          /\ run_dirs' = run_dirs
             ELSE IF last # None
             THEN /\ pc' = "wait_last"
                  /\ call' = [call EXCEPT !.last_run_dir = last]
                  /\ result' = result
                  /\ run_dirs' = run_dirs
             ELSE make_new_run(got.index, None, run_dirs)
    /\ open_jobs' = IF pc' \in {"wait_last", "wait_new"} THEN enter_job(open_jobs) ELSE open_jobs
    /\ submitted' = IF pc' = "wait_new" THEN job_started("spinup", call'.run_dir) ELSE submitted
    /\ UNCHANGED <<start_from_closest_parameters, model_options, op, derivative_dirs, faults>>

(* wait_until_run_finished(last_run_dir) returns; matching_run_dir goes on to its next wait *)
wait_until_run_finished ==
    /\ pc = "wait_last"
    /\ wait_until_finished(call.last_run_dir)
    /\ make_new_run(db_index(parameters_db, model_options.parameters), call.last_run_dir,
                    made_read_only(run_dirs, call.last_run_dir))
    /\ open_jobs' = IF pc' = "wait_new" THEN enter_job(exit_job(open_jobs)) ELSE exit_job(open_jobs)
    /\ submitted' = IF pc' = "wait_new" THEN job_started("spinup", call'.run_dir) ELSE submitted
    /\ UNCHANGED <<parameters_db, start_from_closest_parameters, model_options, op, derivative_dirs, faults>>

(* start_run's wait for the new run returns; matching_run_dir returns the new run *)
start_run_finished ==
    /\ pc = "wait_new"
    /\ wait_until_finished(call.run_dir)
    /\ run_dirs' = made_read_only(run_dirs, call.run_dir)
    /\ return_run_dir(call.run_dir)
    /\ open_jobs' = exit_job(open_jobs)
    /\ UNCHANGED <<parameters_db, start_from_closest_parameters, model_options, op, derivative_dirs, submitted, faults>>

(* the batch system: a started job finishes *)
job_finishes(i, k) ==
    /\ k < Len(run_dirs[i])
    /\ ~run_dirs[i][k + 1].finished
    /\ \E outcome \in job_outcomes(run_dirs[i][k + 1].years, run_dirs[i][k + 1].tolerance) :
          run_dirs' = [run_dirs EXCEPT ![i][k + 1].last_year = outcome.last_year,
                                       ![i][k + 1].last_tolerance = outcome.last_tolerance,
                                       ![i][k + 1].finished = TRUE]
    /\ UNCHANGED <<parameters_db, start_from_closest_parameters, model_options, pc, call, result, df_vars>>

-----------------------------------------------------------------------------
(* The database a session starts from: what earlier sessions left.  Every run
   has finished and is read-only, every run but the first was warm-started from
   the run before it, and no run but the last has tolerance 0 (a chain whose
   last run has tolerance 0 matches every request and is never extended).
   Parameter set 0 holds up to InitRuns runs of one year, a second parameter
   set, out of tolerance of it, at most one. *)

InitJob(i, k, years, tolerance) ==
    [last_year |-> years, last_tolerance |-> tolerance, years |-> years, tolerance |-> 0,
     tracer_input |-> IF k = 0 THEN Initial ELSE <<i, k - 1>>, finished |-> TRUE,
     read_only_input |-> TRUE, read_only_output |-> TRUE]

InitChains(i, runs) ==
    UNION {{[k \in 1..n |-> InitJob(i, k - 1, 1, t[k])] :
               t \in {u \in [1..n -> Tols] : \A k \in 1..(n - 1) : u[k] > 0}} : n \in 0..runs}

InitStores == {<<>>, <<0>>, <<0, 2 * ParamTol>>}

InitRunDirs(db) ==
    {[i \in SetIndices |-> IF i = 0 THEN c0 ELSE IF i = 1 THEN c1 ELSE <<>>] :
        c0 \in IF Len(db) > 0 THEN InitChains(0, InitRuns) ELSE {<<>>},
        c1 \in IF Len(db) > 1 THEN InitChains(1, 1) ELSE {<<>>}}

Init ==
    /\ parameters_db \in InitStores
    /\ run_dirs \in InitRunDirs(parameters_db)
    /\ start_from_closest_parameters \in BOOLEAN
    /\ model_options = NoRequest
    /\ pc = "idle"
    /\ call = NoCall
    /\ result = NoResult
    /\ op = NoOp
    /\ derivative_dirs = NoDerivativeDirs
    /\ open_jobs = 0
    /\ submitted = <<>>
    /\ faults = FALSE

Next ==
    \/ \E parameters \in ParamValues, spinup_options \in SpinupOptions : run_dir(parameters, spinup_options)
    \/ matching_run_dir
    \/ wait_until_run_finished
    \/ start_run_finished
    \/ \E i \in SetIndices, k \in 0..(InitRuns + 1) : job_finishes(i, k)

Spec == Init /\ [][Next]_vars

(* a chain whose last run was started (for one year, tolerance 0) by a session
   that ended before the job did: the job still runs *)
interrupted(chain) ==
    IF Len(chain) = 0 THEN chain
    ELSE [chain EXCEPT ![Len(chain)] = start_run(1, 0, @.tracer_input)]

(* the databases of Init, the last run of any chain possibly still running *)
InitInterrupted ==
    /\ parameters_db \in InitStores
    /\ \E dirs \in InitRunDirs(parameters_db), running \in SUBSET {0, 1} :
          run_dirs = [i \in SetIndices |-> IF i \in running THEN interrupted(dirs[i]) ELSE dirs[i]]
    /\ start_from_closest_parameters \in BOOLEAN
    /\ model_options = NoRequest
    /\ pc = "idle"
    /\ call = NoCall
    /\ result = NoResult
    /\ op = NoOp
    /\ derivative_dirs = NoDerivativeDirs
    /\ open_jobs = 0
    /\ submitted = <<>>
    /\ faults = FALSE

SpecInterrupted == InitInterrupted /\ [][Next]_vars

(* the steps of matching_run_dir itself: sequential code that is never suspended *)
ResolutionStep ==
    \/ matching_run_dir
    \/ wait_until_run_finished
    \/ start_run_finished

(* the databases of Init whose chains hold at most one run; a request makes
   them longer *)
InitFair ==
    /\ Init
    /\ \A i \in SetIndices : Len(run_dirs[i]) <= 1

(* the resolution under a scheduler that lets the program run whenever it can;
   nothing is assumed of the batch system *)
SpecFair == InitFair /\ [][Next]_vars /\ WF_vars(ResolutionStep)

-----------------------------------------------------------------------------
(* The queries on a chain: is_matching_run_available and real_years, applied
   to the chain of one parameter set, of up to InitRuns + 1 finished runs of
   one or two years each. *)

is_matching_run_available(parameters, spinup_options) ==
    /\ pc = "idle"
    /\ LET got == get_or_add_index(parameters_db, parameters)
       IN /\ parameters_db' = got.db
          /\ result' = [NoResult EXCEPT !.kind = "bool",
                           !.value = is_run_matching_options(last_run_dir(got.index), spinup_options, TRUE)]
    /\ model_options' = [parameters |-> parameters, spinup_options |-> spinup_options]
    /\ pc' = "done"
    /\ UNCHANGED <<run_dirs, start_from_closest_parameters, call, df_vars>>

real_years_of(a_run_dir, include_previous_runs) ==
    /\ pc = "idle"
    /\ a_run_dir[2] < Len(run_dirs_of(a_run_dir[1]))
    /\ result' = [NoResult EXCEPT !.kind = IF include_previous_runs THEN "real_years" ELSE "years",
                                  !.run_dir = a_run_dir,
                                  !.years = real_years(a_run_dir, include_previous_runs)]
    /\ pc' = "done"
    /\ UNCHANGED <<parameters_db, run_dirs, start_from_closest_parameters, model_options, call, df_vars>>

QueryChains ==
    UNION {{[k \in 1..n |-> InitJob(0, k - 1, y[k], t[k])] :
               y \in [1..n -> 1..2],
               t \in {u \in [1..n -> Tols] : \A k \in 1..(n - 1) : u[k] > 0}} : n \in 0..(InitRuns + 1)}

InitQuery ==
    /\ parameters_db = <<0>>
    /\ run_dirs \in {[i \in SetIndices |-> IF i = 0 THEN c ELSE <<>>] : c \in QueryChains}
    /\ start_from_closest_parameters = FALSE
    /\ model_options = NoRequest
    /\ pc = "idle"
    /\ call = NoCall
    /\ result = NoResult
    /\ op = NoOp
    /\ derivative_dirs = NoDerivativeDirs
    /\ open_jobs = 0
    /\ submitted = <<>>
    /\ faults = FALSE

NextQuery ==
    \/ \E parameters \in ParamValues, spinup_options \in SpinupOptions :
          is_matching_run_available(parameters, spinup_options)
    \/ \E k \in 0..InitRuns, include_previous_runs \in BOOLEAN : real_years_of(<<0, k>>, include_previous_runs)

SpecQuery == InitQuery /\ [][NextQuery]_vars

-----------------------------------------------------------------------------
(* The factor id of a stencil point (start_partial_derivative_run).  A point
   is given relative to the undisturbed parameters: point[i] is the step of
   parameter i, h / h_typical, in fine units, Fine of them to one unit of the
   precision of the id; 0 is an unchanged parameter. *)

ParameterIndices == {0, 1}
Steps == (-MaxStep)..MaxStep
Points == [ParameterIndices -> Steps]

(* the step multiplier cut off after the precision instead of rounded *)
h_factor_truncated(h) == h \div Fine

(* np.round(h_factor * 10**PRECISION): to the nearest unit, halves to the even one *)
h_factor(h) ==
    LET q == h \div Fine
        r == h % Fine
    IN IF 2 * r < Fine THEN q
       ELSE IF 2 * r > Fine THEN q + 1
       ELSE IF q % 2 = 0 THEN q ELSE q + 1

changed_parameters_indices(point) == {i \in ParameterIndices : point[i] # 0}

(* the loop over the changed parameters, in the order of np.where: ascending *)
RECURSIVE factor_ids_of(_, _)
factor_ids_of(point, indices) ==
    IF indices = {} THEN <<>>
    ELSE LET parameter_index == CHOOSE i \in indices : \A j \in indices : i <= j
         IN <<<<parameter_index, h_factor(point[parameter_index])>>>>
            \o factor_ids_of(point, indices \ {parameter_index})

factor_ids(point) ==
    IF changed_parameters_indices(point) = {}
    THEN <<<<-1, 0>>>>
    ELSE factor_ids_of(point, changed_parameters_indices(point))

(* the ids of two stencil points are made *)
make_factor_ids ==
    /\ pc = "idle"
    /\ op.kind = "factor_ids"
    /\ result' = [kind |-> "factor_ids", value |-> [k \in DOMAIN op.points |-> factor_ids(op.points[k])]]
    /\ pc' = "done"
    /\ UNCHANGED <<parameters_db, run_dirs, start_from_closest_parameters, model_options, call, df_vars>>

(* two points less than one unit of the precision apart in every parameter *)
InitFactorIds ==
    /\ parameters_db = <<>>
    /\ run_dirs = [i \in SetIndices |-> <<>>]
    /\ start_from_closest_parameters = FALSE
    /\ model_options = NoRequest
    /\ pc = "idle"
    /\ call = NoCall
    /\ result = NoResult
    /\ op \in {[kind |-> "factor_ids", points |-> points] :
                  points \in {ab \in Points \X Points :
                                 \A i \in ParameterIndices : Abs(ab[1][i] - ab[2][i]) < Fine}}
    /\ derivative_dirs = NoDerivativeDirs
    /\ open_jobs = 0
    /\ submitted = <<>>
    /\ faults = FALSE

NextFactorIds == make_factor_ids

SpecFactorIds == InitFactorIds /\ [][NextFactorIds]_vars

-----------------------------------------------------------------------------
(* Model_With_F._merge_data_sets and _split_data_sets.  An array is a sequence
   of numbers; a dictionary is the sequence of its items in insertion order.
   The value of a tracer is a plain array or a dictionary of named data sets. *)

Tracers == <<"po4", "dop">>
DataSetNames == {"a", "b"}

Arrays == UNION {[1..n -> 0..1] : n \in 0..MaxLen}

PlainValues == {[kind |-> "array", value |-> a] : a \in Arrays}
DataSetItems == {[name |-> n, value |-> a] : n \in DataSetNames, a \in Arrays}
DataSetDicts(size) ==
    {[kind |-> "dict", items |-> items] :
        items \in {i \in UNION {[1..n -> DataSetItems] : n \in 0..size} :
                      \A j, k \in DOMAIN i : j # k => i[j].name # i[k].name}}

TracerDicts ==
    {<<[tracer |-> Tracers[1], value |-> v]>> : v \in PlainValues \cup DataSetDicts(2)}
    \cup {<<[tracer |-> Tracers[1], value |-> v], [tracer |-> Tracers[2], value |-> w]>> :
             v \in PlainValues \cup DataSetDicts(2), w \in PlainValues \cup DataSetDicts(1)}

(* np.concatenate of a list of arrays *)
RECURSIVE concatenate(_)
concatenate(data_set_values_list) ==
    IF Len(data_set_values_list) = 0 THEN <<>>
    ELSE Head(data_set_values_list) \o concatenate(Tail(data_set_values_list))

(* the loop over the data sets of a tracer: the slice of each data set *)
RECURSIVE data_set_split_dict(_, _)
data_set_split_dict(items, start_index) ==
    IF Len(items) = 0 THEN <<>>
    ELSE LET end_index == start_index + Len(Head(items).value)
         IN <<[name |-> Head(items).name, start |-> start_index, stop |-> end_index]>>
            \o data_set_split_dict(Tail(items), end_index)

(* _merge_data_sets: np.concatenate raises ValueError for an empty list *)
_merge_data_sets(tracer_dict) ==
    LET dict_items == {k \in DOMAIN tracer_dict : tracer_dict[k].value.kind = "dict"}
    IN IF \E k \in dict_items : Len(tracer_dict[k].value.items) = 0
       THEN [raised |-> "ValueError", merged |-> <<>>, split |-> {}]
       ELSE [raised |-> "none",
             merged |-> [k \in DOMAIN tracer_dict |->
                            [tracer |-> tracer_dict[k].tracer,
                             value |-> IF k \in dict_items
                                       THEN concatenate([j \in DOMAIN tracer_dict[k].value.items |->
                                                            tracer_dict[k].value.items[j].value])
                                       ELSE tracer_dict[k].value.value]],
             split |-> {[tracer |-> tracer_dict[k].tracer,
                         slices |-> data_set_split_dict(tracer_dict[k].value.items, 0)] : k \in dict_items}]

(* _split_data_sets: a tracer without entry in tracer_split_dict keeps its value *)
_split_data_sets(tracer_dict, tracer_split_dict) ==
    [k \in DOMAIN tracer_dict |->
        LET entries == {e \in tracer_split_dict : e.tracer = tracer_dict[k].tracer}
        IN [tracer |-> tracer_dict[k].tracer,
            value |-> IF entries = {}
                      THEN [kind |-> "array", value |-> tracer_dict[k].value]
                      ELSE LET slices == (CHOOSE e \in entries : TRUE).slices
                           IN [kind |-> "dict",
                               items |-> [j \in DOMAIN slices |->
                                             [name |-> slices[j].name,
                                              value |-> SubSeq(tracer_dict[k].value,
                                                               slices[j].start + 1, slices[j].stop)]]]]]

(* a caller merges the data sets of its points and splits the merged values again *)
merge_and_split_data_sets ==
    /\ pc = "idle"
    /\ op.kind = "merge"
    /\ LET merge == _merge_data_sets(op.tracer_dict)
       IN result' = IF merge.raised # "none"
                    THEN [kind |-> merge.raised, value |-> <<>>]
                    ELSE [kind |-> "split", value |-> _split_data_sets(merge.merged, merge.split)]
    /\ pc' = "done"
    /\ UNCHANGED <<parameters_db, run_dirs, start_from_closest_parameters, model_options, call, df_vars>>

InitMerge ==
    /\ parameters_db = <<>>
    /\ run_dirs = [i \in SetIndices |-> <<>>]
    /\ start_from_closest_parameters = FALSE
    /\ model_options = NoRequest
    /\ pc = "idle"
    /\ call = NoCall
    /\ result = NoResult
    /\ op \in {[kind |-> "merge", tracer_dict |-> m] : m \in TracerDicts}
    /\ derivative_dirs = NoDerivativeDirs
    /\ open_jobs = 0
    /\ submitted = <<>>
    /\ faults = FALSE

NextMerge == merge_and_split_data_sets

SpecMerge == InitMerge /\ [][NextMerge]_vars

-----------------------------------------------------------------------------
(* The value and derivative operations: Model_With_F.f_all and
   Model_With_F_And_DF.df_all and df_points.  They resolve the spinup run with
   matching_run_dir and go on from "resolved". *)

(* model_options.derivative_options.years, in the model's years *)
derivative_years == 2

RequestedTracers == {<<>>, <<Tracers[1]>>, Tracers, <<Tracers[1], "fe">>}

Base == [i \in ParameterIndices |-> 0]
Forward(i) == [j \in ParameterIndices |-> IF j = i THEN Fine ELSE 0]
Backward(i) == [j \in ParameterIndices |-> IF j = i THEN -Fine ELSE 0]

(* the points util.math.finite_differences evaluates its function at, in its
   order: the same in the pass that starts the runs and the pass that reads them *)
Stencils == {<<Forward(0), Backward(0)>>, <<Base, Forward(0), Forward(1)>>}

(* no test of the tracers *)
tracers_unchecked(tracers) == TRUE

(* the test of check_tracers and of _trajectory_load_function_for_points: every
   tracer is one of model_options.tracers *)
tracers_supported(tracers) ==
    \A k \in DOMAIN tracers : \E j \in DOMAIN Tracers : tracers[k] = Tracers[j]

(* check_tracers: the tracers given, or all tracers of the model for None *)
check_tracers(tracers, given) == IF given THEN tracers ELSE Tracers

EngineOp(kind, tracers, stencil) ==
    [kind |-> kind, tracers |-> tracers, stencil |-> stencil, stage |-> "derivative_dir", pos |-> 1,
     partial_derivative_dirs |-> {}, values |-> <<>>, spinup_matching_run_dir |-> None,
     trajectory |-> "none", warnings |-> 0, decisions |-> <<>>, finished_order |-> <<>>,
     parameters_db |-> parameters_db, derivative_dirs |-> derivative_dirs, run_dirs |-> run_dirs,
     probed |-> NoRun,
     partial_derivative_dir |-> <<>>]

Value(kind, value) == [kind |-> kind, value |-> value]

(* _f up to self.run_dir: the tracers are checked, then the run is resolved *)
enter_f(kind, parameters, spinup_options, tracers) ==
    /\ pc = "idle"
    /\ model_options' = [parameters |-> parameters, spinup_options |-> spinup_options]
    /\ IF tracers_supported(tracers)
       THEN /\ op' = EngineOp(kind, check_tracers(tracers, TRUE), <<>>)
            /\ pc' = "enter"
            /\ call' = [spinup_options |-> spinup_options, phase |-> 0,
                        last_run_dir |-> None, run_dir |-> None]
            /\ result' = NoResult
       ELSE /\ op' = [EngineOp(kind, tracers, <<>>) EXCEPT !.stage = "none"]
            /\ pc' = "error"
            /\ call' = call
            /\ result' = Raised("ValueError")
    /\ UNCHANGED <<parameters_db, run_dirs, start_from_closest_parameters,
                   derivative_dirs, open_jobs, submitted, faults>>

(* f_all -> _f, where check_tracers tests the tracers *)
f_all(parameters, spinup_options, tracers) == enter_f("f_all", parameters, spinup_options, tracers)

(* f_points -> _f for the tracers of the points, which
   _trajectory_load_function_for_points has tested *)
f_points(parameters, spinup_options, tracers) == enter_f("f_points", parameters, spinup_options, tracers)

(* df_all and df_points -> _df, up to the resolution of the derivative
   directory; df_points passes no tracers to _df *)
df(kind, parameters, spinup_options, tracers, stencil) ==
    /\ pc = "idle"
    /\ kind \in {"df_all", "df_points"}
    /\ model_options' = [parameters |-> parameters, spinup_options |-> spinup_options]
    /\ LET checked == check_tracers(tracers, kind = "df_all")
       IN IF ~tracers_supported(tracers)
          THEN /\ op' = [EngineOp(kind, tracers, stencil) EXCEPT !.stage = "none"]
               /\ pc' = "error"
               /\ call' = call
               /\ result' = Raised("ValueError")
          ELSE IF Len(checked) = 0
          THEN /\ op' = [EngineOp(kind, tracers, stencil) EXCEPT !.stage = "none"]
               /\ pc' = "done"
               /\ call' = call
               /\ result' = Value("df", <<>>)
          ELSE /\ op' = EngineOp(kind, tracers, stencil)
               /\ pc' = "enter"
               /\ call' = [spinup_options |-> spinup_options, phase |-> 0,
                           last_run_dir |-> None, run_dir |-> None]
               /\ result' = NoResult
    /\ UNCHANGED <<parameters_db, run_dirs, start_from_closest_parameters,
                   derivative_dirs, open_jobs, submitted, faults>>

(* _trajectory_with_load_function up to the wait for its job: nothing to do
   without tracers, else a trajectory job is started from run_dir *)
start_trajectory(tracers, dir) ==
    IF Len(tracers) = 0
    THEN /\ pc' = "done"
         /\ result' = Value("f", <<>>)
         /\ op' = op
         /\ open_jobs' = open_jobs
         /\ submitted' = submitted
    ELSE /\ pc' = "wait_trajectory"
         /\ result' = result
         /\ op' = [op EXCEPT !.trajectory = "running"]
         /\ open_jobs' = enter_job(open_jobs)
         /\ submitted' = job_started("trajectory", dir)

(* _f after self.run_dir *)
_f ==
    /\ pc = "resolved"
    /\ op.kind \in {"f_all", "f_points"}
    /\ start_trajectory(op.tracers, result.run_dir)
    /\ UNCHANGED <<parameters_db, run_dirs, start_from_closest_parameters, model_options, call,
                   derivative_dirs, faults>>

(* the derivative directory is named after the real years of the spinup run:
   the directory of a run started by this operation is a new one *)
derivative_dir(dirs) == IF submitted = <<>> THEN dirs ELSE NoDerivativeDirs

(* _df after the resolution of derivative_dir: matching_run_dir once more;
   after that one: the runs of the stencil points are started *)
_df ==
    /\ pc = "resolved"
    /\ op.kind \in {"df_all", "df_points"}
    /\ IF op.stage = "derivative_dir"
       THEN /\ op' = [op EXCEPT !.stage = "spinup"]
            /\ derivative_dirs' = derivative_dir(derivative_dirs)
            /\ pc' = "enter"
            /\ call' = [spinup_options |-> model_options.spinup_options, phase |-> 0,
                        last_run_dir |-> None, run_dir |-> None]
       ELSE /\ op' = [op EXCEPT !.stage = "fan_out", !.spinup_matching_run_dir = result.run_dir]
            /\ derivative_dirs' = derivative_dirs
            /\ pc' = "fan_out"
            /\ call' = call
    /\ UNCHANGED <<parameters_db, run_dirs, start_from_closest_parameters, model_options, result,
                   open_jobs, submitted, faults>>

(* the first pass ended after its first point *)
fan_out_done_early(pos, stencil) == pos >= 1

(* the pass over the stencil points has evaluated its last point *)
fan_out_done(pos, stencil) == pos >= Len(stencil)

(* some registered directory, whatever the point *)
any_partial_derivative_dir(dirs, point) == (CHOOSE e \in dirs : TRUE)[2]

(* partial_derivative_dirs[tuple(partial_derivative_parameters)] *)
partial_derivative_dir_of(dirs, point) == (CHOOSE e \in dirs : e[1] = point)[2]

(* the probe of a partial derivative directory: a directory without a readable
   job record raises JobOptionFileError, which counts as not matching *)
matching_options(run) ==
    IF run.state # "job"
    THEN FALSE
    ELSE /\ is_matching(run.last_year, run.last_tolerance, derivative_years, 0, "or",
                        model_spinup_max_years)
         /\ is_run_matching_options(run.tracer_input, model_options.spinup_options, TRUE)

(* start_partial_derivative_run for the next stencil point *)
start_partial_derivative_run ==
    /\ pc = "fan_out"
    /\ LET point == op.stencil[op.pos]
           id == factor_ids(point)
           before == derivative_dirs[id]
           last == fan_out_done(op.pos, op.stencil)
           registered(decision) ==
               /\ op' = [op EXCEPT !.partial_derivative_dirs =
                                       {e \in @ : e[1] # point} \cup {<<point, id>>},
                                   !.decisions = Append(@, [point |-> point, id |-> id, before |-> before,
                                                            decision |-> decision]),
                                   !.pos = IF last THEN 1 ELSE @ + 1]
               /\ pc' = IF last THEN "fan_in" ELSE "fan_out"
               /\ open_jobs' = IF last THEN enter_job(open_jobs) ELSE open_jobs
               /\ result' = result
       IN IF matching_options(before)
          THEN /\ derivative_dirs' = derivative_dirs
               /\ submitted' = submitted
               /\ registered("reused")
          ELSE \/ /\ derivative_dirs' =
                        [derivative_dirs EXCEPT ![id] =
                            PartialDerivativeRun("job", 0, MaxTol, FALSE, op.spinup_matching_run_dir, point)]
                  /\ submitted' = job_started("derivative", id)
                  /\ registered("submitted")
               \/ /\ faults
                  /\ before.state # "none"
                  /\ pc' = "error"
                  /\ result' = Raised("OSError")
                  /\ op' = [op EXCEPT !.probed = before,
                                      !.decisions = Append(@, [point |-> point, id |-> id, before |-> before,
                                                               decision |-> "raised"])]
                  /\ UNCHANGED <<derivative_dirs, submitted, open_jobs>>
    /\ UNCHANGED <<parameters_db, run_dirs, start_from_closest_parameters, model_options, call, faults>>

(* a wait that returns while the job of the run still runs *)
wait_until_run_finished_returns_at_once(partial_derivative_dir) == TRUE

(* wait_until_run_finished(partial_derivative_dir) returns: the job of the run
   has finished; nothing else ends the wait but an exception of the job *)
wait_until_run_finished_returns(partial_derivative_dir) ==
    derivative_dirs[partial_derivative_dir].finished

(* get_partial_derivative_run_value: the wait for the run of the point returns
   and the trajectory job of the run is started *)
get_partial_derivative_run_value ==
    /\ pc = "fan_in"
    /\ LET id == partial_derivative_dir_of(op.partial_derivative_dirs, op.stencil[op.pos])
       IN /\ wait_until_run_finished_returns(id)
          /\ pc' = "wait_trajectory"
          /\ op' = [op EXCEPT !.trajectory = "running", !.partial_derivative_dir = id]
          /\ open_jobs' = enter_job(exit_job(open_jobs))
          /\ submitted' = job_started("trajectory", id)
    /\ UNCHANGED <<parameters_db, run_dirs, start_from_closest_parameters, model_options, call, result,
                   derivative_dirs, faults>>

(* the wait for the trajectory job returns: the trajectory is read and its
   directory removed; a failure of the removal gives a warning *)
load_trajectory ==
    /\ pc = "wait_trajectory"
    /\ op.trajectory = "finished"
    /\ \E warnings \in IF faults THEN {0, 1} ELSE {0} :
          IF op.kind \in {"f_all", "f_points"}
          THEN /\ op' = [op EXCEPT !.trajectory = "none", !.warnings = @ + warnings]
               /\ pc' = "done"
               /\ result' = Value("f", [k \in DOMAIN op.tracers |-> <<op.tracers[k], result.run_dir>>])
               /\ open_jobs' = exit_job(open_jobs)
          ELSE LET last == fan_out_done(op.pos, op.stencil)
                   values == Append(op.values, <<op.partial_derivative_dir, op.stencil[op.pos]>>)
               IN /\ op' = [op EXCEPT !.trajectory = "none", !.warnings = @ + warnings,
                                      !.values = values, !.pos = IF last THEN @ ELSE @ + 1]
                  /\ pc' = IF last THEN "done" ELSE "fan_in"
                  /\ result' = IF last THEN Value("df", values) ELSE result
                  /\ open_jobs' = IF last THEN exit_job(open_jobs) ELSE enter_job(exit_job(open_jobs))
    /\ UNCHANGED <<parameters_db, run_dirs, start_from_closest_parameters, model_options, call,
                   derivative_dirs, submitted, faults>>

(* the batch system: the job of a partial derivative run finishes while the
   operation runs; with tolerance 0 the run takes all its years *)
partial_derivative_job_finishes(id) ==
    /\ pc \in {"fan_out", "fan_in", "wait_trajectory"}
    /\ derivative_dirs[id].state = "job"
    /\ ~derivative_dirs[id].finished
    /\ derivative_dirs' = [derivative_dirs EXCEPT ![id].last_year = derivative_years,
                                                  ![id].finished = TRUE]
    /\ op' = [op EXCEPT !.finished_order = Append(@, id)]
    /\ UNCHANGED <<parameters_db, run_dirs, start_from_closest_parameters, model_options, pc, call,
                   result, open_jobs, submitted, faults>>

(* the batch system: the trajectory job finishes *)
trajectory_job_finishes ==
    /\ op.kind # "none"
    /\ op.trajectory = "running"
    /\ op' = [op EXCEPT !.trajectory = "finished"]
    /\ UNCHANGED <<parameters_db, run_dirs, start_from_closest_parameters, model_options, pc, call,
                   result, derivative_dirs, open_jobs, submitted, faults>>

(* wait_until_finished raises inside the with block of wait_until_run_finished *)
wait_until_finished_raises ==
    /\ faults
    /\ pc \in {"wait_last", "wait_new", "fan_in", "wait_trajectory"}
    /\ pc' = "error"
    /\ call' = NoCall
    /\ result' = Raised("JobError")
    /\ open_jobs' = exit_job(open_jobs)
    /\ UNCHANGED <<parameters_db, run_dirs, start_from_closest_parameters, model_options, op,
                   derivative_dirs, submitted, faults>>

(* what a partial derivative directory holds when an operation begins: nothing,
   an unreadable job record, or a finished run started from the first spinup run *)
StaleRuns ==
    {NoRun, PartialDerivativeRun("malformed", 0, 0, FALSE, None, <<>>)}
    \cup {PartialDerivativeRun("job", y[1], y[2], TRUE, <<0, 0>>, <<>>) :
             y \in {<<derivative_years, 1>>, <<1, 0>>}}

EngineOptions ==
    {o \in SpinupOptions : o.match_type = "exact" /\ o.years \in 1..2 /\ o.tolerance = 1
                              /\ o.combination = "or"}

InitEngine ==
    /\ parameters_db \in {<<>>, <<0>>}
    /\ run_dirs \in {[i \in SetIndices |-> IF i = 0 THEN c ELSE <<>>] :
                        c \in IF Len(parameters_db) > 0 THEN InitChains(0, 1) ELSE {<<>>}}
    /\ start_from_closest_parameters = FALSE
    /\ model_options = NoRequest
    /\ pc = "idle"
    /\ call = NoCall
    /\ result = NoResult
    /\ op = NoOp
    /\ derivative_dirs \in
          {[id \in FactorIds |-> IF id = factor_ids(Base) THEN a
                                 ELSE IF id = factor_ids(Forward(0)) THEN b ELSE NoRun] :
              a \in IF Len(run_dirs[0]) > 0 THEN {r \in StaleRuns : r.state # "malformed"} ELSE {NoRun},
              b \in IF Len(run_dirs[0]) > 0 THEN StaleRuns ELSE {NoRun}}
    /\ open_jobs = 0
    /\ submitted = <<>>
    /\ faults \in BOOLEAN

NextEngine ==
    \/ \E spinup_options \in EngineOptions, tracers \in RequestedTracers :
          \/ f_all(0, spinup_options, tracers)
          \/ f_points(0, spinup_options, tracers)
    \/ \E kind \in {"df_all", "df_points"}, spinup_options \in EngineOptions,
          tracers \in RequestedTracers, stencil \in Stencils :
          df(kind, 0, spinup_options, tracers, stencil)
    \/ matching_run_dir
    \/ wait_until_run_finished
    \/ start_run_finished
    \/ \E i \in SetIndices, k \in 0..(InitRuns + 1) : job_finishes(i, k)
    \/ _f
    \/ _df
    \/ start_partial_derivative_run
    \/ get_partial_derivative_run_value
    \/ load_trajectory
    \/ \E id \in FactorIds : partial_derivative_job_finishes(id)
    \/ trajectory_job_finishes
    \/ wait_until_finished_raises

SpecEngine == InitEngine /\ [][NextEngine]_vars

(* a point next to Forward(i): less than the precision of the id away from it *)
Near(i) == [j \in ParameterIndices |-> IF j = i THEN Fine + 1 ELSE 0]

(* stencils in which the evaluator is given a point twice, or two points with
   one factor id *)
RepeatedStencils ==
    {<<Forward(0), Forward(0)>>, <<Forward(0), Near(0)>>, <<Forward(0), Backward(0), Forward(0)>>}

NextRepeated ==
    \/ \E kind \in {"df_all", "df_points"}, spinup_options \in EngineOptions, stencil \in RepeatedStencils :
          df(kind, 0, spinup_options, Tracers, stencil)
    \/ matching_run_dir
    \/ wait_until_run_finished
    \/ start_run_finished
    \/ \E i \in SetIndices, k \in 0..(InitRuns + 1) : job_finishes(i, k)
    \/ _df
    \/ start_partial_derivative_run
    \/ get_partial_derivative_run_value
    \/ load_trajectory
    \/ \E id \in FactorIds : partial_derivative_job_finishes(id)
    \/ trajectory_job_finishes
    \/ wait_until_finished_raises

SpecRepeated == InitEngine /\ [][NextRepeated]_vars

-----------------------------------------------------------------------------
(* A sequence of derivative requests with changing spinup options on one
   parameter set.  Each request is taken as a whole: the derivative directory
   is named after the run matching_run_dir returns, matching_run_dir is called
   once more for the run to start from, and one partial derivative directory
   is probed.  The jobs run as in job_outcomes. *)

MaxRequests == 3

chain_dirs(chain) == [i \in SetIndices |-> IF i = 0 THEN chain ELSE <<>>]

(* real_years(run_dir, include_previous_runs=True) of run k of the chain *)
real_years_of_run(chain, k) == real_years_in(chain_dirs(chain), <<0, k>>, TRUE)

(* is_run_is_reusable for run k of the chain, -1 for None *)
is_run_matching(chain, k, spinup_options) ==
    IF k < 0 THEN FALSE
    ELSE is_matching(real_years_of_run(chain, k), chain[k + 1].last_tolerance,
                     spinup_options.years, spinup_options.tolerance,
                     spinup_options.combination, model_spinup_max_years)

RECURSIVE nearest_better_run(_, _, _)
nearest_better_run(chain, k, spinup_options) ==
    IF is_run_matching(chain, k - 1, spinup_options)
    THEN nearest_better_run(chain, k - 1, spinup_options)
    ELSE k

(* a run started with start_run(wait_until_finished=True), as its job left it *)
finished_run(years, tolerance, tracer_input, outcome) ==
    [start_run(years, tolerance, tracer_input) EXCEPT !.last_year = outcome.last_year,
                                                      !.last_tolerance = outcome.last_tolerance,
                                                      !.finished = TRUE,
                                                      !.read_only_output = TRUE]

(* matching_run_dir for a known last run or combination "or": the chains it
   can leave and the run it returns *)
matching_run_dirs_or(chain, spinup_options) ==
    LET last == Len(chain) - 1
    IN IF is_run_matching(chain, last, spinup_options)
       THEN {[chain |-> chain,
              run |-> IF spinup_options.match_type = "equal_or_nearest_better"
                      THEN nearest_better_run(chain, last, spinup_options) ELSE last]}
       ELSE LET years == IF last >= 0 THEN spinup_options.years - real_years_of_run(chain, last)
                         ELSE spinup_options.years
                tracer_input == IF last >= 0 THEN tracer_output_files(<<0, last>>) ELSE Initial
            IN {[chain |-> Append(chain, finished_run(years, spinup_options.tolerance, tracer_input, outcome)),
                 run |-> last + 1] : outcome \in job_outcomes(years, spinup_options.tolerance)}

sub_options(years, tolerance, match_type) ==
    [years |-> years, tolerance |-> tolerance, combination |-> "or", match_type |-> match_type]

(* matching_run_dir: for "and" without a matching last run, the second of its
   two calls decides *)
matching_run_dirs(chain, spinup_options) ==
    IF spinup_options.combination = "or" \/ is_run_matching(chain, Len(chain) - 1, spinup_options)
    THEN matching_run_dirs_or(chain, spinup_options)
    ELSE UNION {UNION {matching_run_dirs_or(first.chain,
                                            sub_options(model_spinup_max_years, spinup_options.tolerance, m[2])) :
                          first \in matching_run_dirs_or(chain, sub_options(spinup_options.years, 0, m[1]))} :
                   m \in MatchTypes \X MatchTypes}

(* derivative_dir: named after the real years of the run returned for the
   request (step size and derivative years are fixed here) *)
derivative_dir_of(chain, run) == real_years_of_run(chain, run)

DerivativeDirNames == 0..model_spinup_max_years

(* _df up to the probe of one partial derivative directory, whose run, if
   any, has achieved the derivative years: op.store gives for each derivative
   directory the spinup run the run in it was started from, -1 for none *)
df_request(spinup_options) ==
    /\ op.calls < MaxRequests
    /\ \E first \in matching_run_dirs(run_dirs[0], spinup_options) :
          \E second \in matching_run_dirs(first.chain, spinup_options) :
             LET name == derivative_dir_of(first.chain, first.run)
                 started_from == op.store[name]
                 is_reusable == is_run_matching(second.chain, started_from, spinup_options)
             IN /\ run_dirs' = [run_dirs EXCEPT ![0] = second.chain]
                /\ op' = [op EXCEPT !.calls = @ + 1,
                                    !.store[name] = IF is_reusable THEN @ ELSE second.run,
                                    !.reused = is_reusable,
                                    !.started_from = IF is_reusable THEN started_from ELSE second.run,
                                    !.spinup_matching_run_dir = second.run,
                                    !.named_after = first.run]
                /\ model_options' = [parameters |-> 0, spinup_options |-> spinup_options]
    /\ UNCHANGED <<parameters_db, start_from_closest_parameters, pc, call, result,
                   derivative_dirs, open_jobs, submitted, faults>>

InitReuse ==
    /\ parameters_db = <<0>>
    /\ run_dirs \in {[i \in SetIndices |-> IF i = 0 THEN c ELSE <<>>] : c \in InitChains(0, InitRuns)}
    /\ start_from_closest_parameters = FALSE
    /\ model_options = NoRequest
    /\ pc = "idle"
    /\ call = NoCall
    /\ result = NoResult
    /\ op = [kind |-> "reuse", calls |-> 0, store |-> [name \in DerivativeDirNames |-> -1],
             reused |-> FALSE, started_from |-> -1, spinup_matching_run_dir |-> -1, named_after |-> -1]
    /\ derivative_dirs = NoDerivativeDirs
    /\ open_jobs = 0
    /\ submitted = <<>>
    /\ faults = FALSE

NextReuse == \E spinup_options \in SpinupOptions : df_request(spinup_options)

SpecReuse == InitReuse /\ [][NextReuse]_vars

(* the steps of the program itself: sequential code that is never suspended *)
EngineStep ==
    \/ matching_run_dir
    \/ wait_until_run_finished
    \/ start_run_finished
    \/ _f
    \/ _df
    \/ start_partial_derivative_run
    \/ get_partial_derivative_run_value
    \/ load_trajectory

(* the operations under a scheduler that lets the program run whenever it can;
   nothing is assumed of the batch system *)
SpecEngineFair == SpecEngine /\ WF_vars(EngineStep)

-----------------------------------------------------------------------------
(* Model_Database.parameter_set_dir_index, called for the parameters of two
   requests in any order and any number of times up to MaxCalls. *)

MaxCalls == 4

(* the parameters of two requests that are equal within the tolerance *)
EqualRequests == {r \in ParamValues \X ParamValues : are_values_equal(r[1], r[2])}

parameter_set_dir_index(k) ==
    /\ pc = "idle"
    /\ op.kind = "index"
    /\ Len(op.indices) < MaxCalls
    /\ LET got == get_or_add_index(parameters_db, op.parameters[k])
       IN /\ parameters_db' = got.db
          /\ model_options' = [model_options EXCEPT !.parameters = op.parameters[k]]
          /\ op' = [op EXCEPT !.indices = Append(@, [request |-> k, index |-> got.index,
                                                     stored |-> Len(got.db)])]
    /\ UNCHANGED <<run_dirs, start_from_closest_parameters, pc, call, result,
                   derivative_dirs, open_jobs, submitted, faults>>

InitIndex ==
    /\ parameters_db \in InitStores
    /\ run_dirs = [i \in SetIndices |-> <<>>]
    /\ start_from_closest_parameters = FALSE
    /\ model_options = NoRequest
    /\ pc = "idle"
    /\ call = NoCall
    /\ result = NoResult
    /\ op \in {[kind |-> "index", parameters |-> r, indices |-> <<>>] : r \in EqualRequests}
    /\ derivative_dirs = NoDerivativeDirs
    /\ open_jobs = 0
    /\ submitted = <<>>
    /\ faults = FALSE

NextIndex == \E k \in {1, 2} : parameter_set_dir_index(k)

SpecIndex == InitIndex /\ [][NextIndex]_vars

-----------------------------------------------------------------------------
(* Requests whose combination is neither "and" nor "or". *)

UnknownCombinationOptions ==
    [years : 1..2, tolerance : Tols, combination : {"xor"}, match_type : MatchTypes]

NextCombination ==
    \/ \E parameters \in ParamValues, spinup_options \in UnknownCombinationOptions :
          run_dir(parameters, spinup_options)
    \/ matching_run_dir
    \/ wait_until_run_finished
    \/ start_run_finished
    \/ \E i \in SetIndices, k \in 0..(InitRuns + 1) : job_finishes(i, k)

SpecCombination == Init /\ [][NextCombination]_vars

-----------------------------------------------------------------------------
(* The parameters of the jobs of a derivative computation, with and without
   the total concentration factor as last component of the stencil points.
   Here a point is the sequence of its parameter values. *)

parameters_len == 2

ModelParameters == [1..parameters_len -> 1..3]

(* partial_derivative_parameters_undisturbed *)
partial_derivative_parameters_undisturbed(model_parameter, include_total_concentration) ==
    IF include_total_concentration THEN model_parameter \o <<1>> ELSE model_parameter

(* the undisturbed point, then each component stepped down and up by one *)
SteppedPoints(undisturbed) ==
    <<undisturbed>>
    \o [k \in 1..(2 * Len(undisturbed)) |->
           [undisturbed EXCEPT ![(k + 1) \div 2] = @ + (IF k % 2 = 1 THEN -1 ELSE 1)]]

(* the point handed on as it is *)
start_run_parameters_unconverted(partial_derivative_parameters, include_total_concentration) ==
    [model_parameters |-> partial_derivative_parameters, total_concentration_factor |-> 1]

convert_partial_derivative_parameters_to_start_run_parameters(partial_derivative_parameters, include_total_concentration) ==
    IF include_total_concentration
    THEN [model_parameters |-> SubSeq(partial_derivative_parameters, 1,
                                      Len(partial_derivative_parameters) - 1),
          total_concentration_factor |->
              partial_derivative_parameters[Len(partial_derivative_parameters)]]
    ELSE [model_parameters |-> partial_derivative_parameters, total_concentration_factor |-> 1]

(* start_run as start_partial_derivative_run calls it for the next point *)
start_partial_derivative_job ==
    /\ pc = "idle"
    /\ op.kind = "job_parameters"
    /\ op.stage = "fan_out"
    /\ LET converted == convert_partial_derivative_parameters_to_start_run_parameters(
                            op.stencil[op.pos], op.include_total_concentration)
       IN submitted' = Append(submitted, [kind |-> "derivative", point |-> op.stencil[op.pos],
                                          model_parameters |-> converted.model_parameters,
                                          total_concentration_factor |->
                                              converted.total_concentration_factor])
    /\ op' = IF op.pos = Len(op.stencil)
             THEN [op EXCEPT !.stage = "fan_in", !.pos = 1]
             ELSE [op EXCEPT !.pos = @ + 1]
    /\ UNCHANGED <<parameters_db, run_dirs, start_from_closest_parameters, model_options, pc, call,
                   result, derivative_dirs, open_jobs, faults>>

(* start_run as _trajectory_with_load_function calls it for the run of the
   next point: no total_concentration_factor is given, which leaves it at 1 *)
start_trajectory_job ==
    /\ pc = "idle"
    /\ op.kind = "job_parameters"
    /\ op.stage = "fan_in"
    /\ LET converted == convert_partial_derivative_parameters_to_start_run_parameters(
                            op.stencil[op.pos], op.include_total_concentration)
       IN submitted' = Append(submitted, [kind |-> "trajectory", point |-> op.stencil[op.pos],
                                          model_parameters |-> converted.model_parameters,
                                          total_concentration_factor |-> 1])
    /\ op' = IF op.pos = Len(op.stencil)
             THEN [op EXCEPT !.stage = "done"]
             ELSE [op EXCEPT !.pos = @ + 1]
    /\ UNCHANGED <<parameters_db, run_dirs, start_from_closest_parameters, model_options, pc, call,
                   result, derivative_dirs, open_jobs, faults>>

InitJobParameters ==
    /\ parameters_db = <<>>
    /\ run_dirs = [i \in SetIndices |-> <<>>]
    /\ start_from_closest_parameters = FALSE
    /\ model_options = NoRequest
    /\ pc = "idle"
    /\ call = NoCall
    /\ result = NoResult
    /\ op \in {[kind |-> "job_parameters", model_parameter |-> model_parameter,
                 include_total_concentration |-> include_total_concentration,
                 stencil |-> SteppedPoints(partial_derivative_parameters_undisturbed(
                                               model_parameter, include_total_concentration)),
                 stage |-> "fan_out", pos |-> 1] :
                  model_parameter \in ModelParameters, include_total_concentration \in BOOLEAN}
    /\ derivative_dirs = NoDerivativeDirs
    /\ open_jobs = 0
    /\ submitted = <<>>
    /\ faults = FALSE

NextJobParameters == start_partial_derivative_job \/ start_trajectory_job

SpecJobParameters == InitJobParameters /\ [][NextJobParameters]_vars

-----------------------------------------------------------------------------
(* Chain discovery: Model_Database.run_dirs and last_run_dir on a spinup
   directory that may be missing or, with faults, fail to be searched. *)

(* the search failure ignored *)
run_dirs_unguarded(i, failed) == run_dirs_of(i)

(* Model_Database.run_dirs: an OSError of the search is logged and gives no run *)
run_dirs_searched(i, failed) == IF failed THEN <<>> ELSE run_dirs_of(i)

(* last_run_dir of spinup directory i, then is_run_matching_options on it *)
discover_last_run_dir(i, spinup_options) ==
    /\ pc = "idle"
    /\ LET last_run_index == Len(run_dirs_searched(i, faults)) - 1
           last == IF last_run_index >= 0 THEN <<i, last_run_index>> ELSE None
       IN result' = [NoResult EXCEPT !.kind = "last_run_dir", !.run_dir = last,
                                     !.value = is_run_matching_options(last, spinup_options, TRUE)]
    /\ op' = [kind |-> "discovery", index |-> i]
    /\ pc' = "done"
    /\ UNCHANGED <<parameters_db, run_dirs, start_from_closest_parameters, model_options, call,
                   derivative_dirs, open_jobs, submitted, faults>>

InitDiscovery ==
    /\ parameters_db = <<0>>
    /\ run_dirs \in {[i \in SetIndices |-> IF i = 0 THEN c ELSE <<>>] : c \in QueryChains}
    /\ start_from_closest_parameters = FALSE
    /\ model_options = NoRequest
    /\ pc = "idle"
    /\ call = NoCall
    /\ result = NoResult
    /\ op = NoOp
    /\ derivative_dirs = NoDerivativeDirs
    /\ open_jobs = 0
    /\ submitted = <<>>
    /\ faults \in BOOLEAN

NextDiscovery ==
    \E i \in SetIndices, spinup_options \in SpinupOptions : discover_last_run_dir(i, spinup_options)

SpecDiscovery == InitDiscovery /\ [][NextDiscovery]_vars

-----------------------------------------------------------------------------
(* The run directories of one spinup directory as the file system holds them:
   the set of the run indices whose directory exists.  last_run_dir and
   make_new_run_dir count the directories the search finds. *)

(* len(self.run_dirs(search_path)): the directories found, none when the
   search raises OSError *)
len_run_dirs(dirs, failed) == IF failed THEN 0 ELSE Cardinality(dirs)

(* what a search can do: it fails only when the file system does *)
SearchOutcomes == IF faults THEN BOOLEAN ELSE {FALSE}

RunDirsOp(dirs, function, returned, calls) ==
    [kind |-> "run_dirs", dirs |-> dirs.after, before |-> dirs.before, function |-> function,
     returned |-> returned, calls |-> calls]

(* last_run_dir(search_path): the directory of index len(run_dirs) - 1, or None (-1) *)
last_run_dir_of_search_path(failed) ==
    /\ op.calls < MaxCalls
    /\ LET last_run_index == len_run_dirs(op.dirs, failed) - 1
       IN IF last_run_index >= 0 /\ last_run_index \notin op.dirs
          THEN /\ op' = RunDirsOp([before |-> op.dirs, after |-> op.dirs], "last_run_dir", -1,
                                  op.calls + 1)
               /\ result' = Raised("OSError")
          ELSE /\ op' = RunDirsOp([before |-> op.dirs, after |-> op.dirs], "last_run_dir",
                                  last_run_index, op.calls + 1)
               /\ result' = Value("last_run_dir", last_run_index)
    /\ UNCHANGED <<parameters_db, run_dirs, start_from_closest_parameters, model_options, pc, call,
                   derivative_dirs, open_jobs, submitted, faults>>

(* make_new_run_dir(output_path): os.makedirs(run_dir, exist_ok=False) for the
   index len(run_dirs) *)
make_new_run_dir_of_output_path(failed) ==
    /\ op.calls < MaxCalls
    /\ LET next_run_index == len_run_dirs(op.dirs, failed)
       IN IF next_run_index \in op.dirs
          THEN /\ op' = RunDirsOp([before |-> op.dirs, after |-> op.dirs], "make_new_run_dir", -1,
                                  op.calls + 1)
               /\ result' = Raised("FileExistsError")
          ELSE /\ op' = RunDirsOp([before |-> op.dirs, after |-> op.dirs \cup {next_run_index}],
                                  "make_new_run_dir", next_run_index, op.calls + 1)
               /\ result' = Value("make_new_run_dir", next_run_index)
    /\ UNCHANGED <<parameters_db, run_dirs, start_from_closest_parameters, model_options, pc, call,
                   derivative_dirs, open_jobs, submitted, faults>>

InitRunDirsOp ==
    /\ parameters_db = <<0>>
    /\ run_dirs = [i \in SetIndices |-> <<>>]
    /\ start_from_closest_parameters = FALSE
    /\ model_options = NoRequest
    /\ pc = "idle"
    /\ call = NoCall
    /\ result = NoResult
    /\ op \in {RunDirsOp([before |-> 0..(n - 1), after |-> 0..(n - 1)], "none", -1, 0) :
                  n \in 0..InitRuns}
    /\ derivative_dirs = NoDerivativeDirs
    /\ open_jobs = 0
    /\ submitted = <<>>
    /\ faults \in BOOLEAN

NextRunDirs ==
    \/ \E failed \in SearchOutcomes : last_run_dir_of_search_path(failed)
    \/ \E failed \in SearchOutcomes : make_new_run_dir_of_output_path(failed)

SpecRunDirs == InitRunDirsOp /\ [][NextRunDirs]_vars

-----------------------------------------------------------------------------
(* Two orchestrator processes resolve the same "or" request on the chain of one
   parameter set.  Each runs matching_run_dir; the statements that read or
   write the spinup directory are the steps, and they interleave freely. *)

Processes == {1, 2}

(* a run directory made by os.makedirs in which no job has been written yet *)
EmptyRunDir ==
    [last_year |-> 0, last_tolerance |-> MaxTol, years |-> 0, tolerance |-> 0,
     tracer_input |-> None, finished |-> TRUE, read_only_input |-> FALSE, read_only_output |-> FALSE]

NoProcess == [pc |-> "enter", last_run_dir |-> None, next_run_index |-> -1, run_dir |-> None]

at(process, label) == op.processes[process].pc = label

goto(process, label) == [op EXCEPT !.processes[process].pc = label]

race_frame == <<parameters_db, start_from_closest_parameters, model_options, pc, call, result,
                derivative_dirs, open_jobs, faults>>

(* matching_run_dir up to the wait for the last run; last_run_dir loads the
   job of the last directory, which fails while the directory holds no job *)
last_run_dir_by(process) ==
    /\ at(process, "enter")
    /\ LET last == last_run_dir(0)
       IN IF last # None /\ job(last).tracer_input = None
          THEN op' = goto(process, "JobError")
          ELSE IF is_run_matching_options(last, model_options.spinup_options, TRUE)
          THEN op' = [op EXCEPT !.processes[process].pc = "done",
                                !.processes[process].run_dir = last]
          ELSE op' = [op EXCEPT !.processes[process].pc = IF last # None THEN "wait_last" ELSE "run_dirs",
                                !.processes[process].last_run_dir = last]
    /\ UNCHANGED <<run_dirs, submitted>>
    /\ UNCHANGED race_frame

(* wait_until_run_finished(last_run_dir) returns *)
wait_until_run_finished_by(process) ==
    /\ at(process, "wait_last")
    /\ wait_until_finished(op.processes[process].last_run_dir)
    /\ op' = goto(process, "run_dirs")
    /\ run_dirs' = made_read_only(run_dirs, op.processes[process].last_run_dir)
    /\ UNCHANGED submitted
    /\ UNCHANGED race_frame

(* make_new_run_dir: next_run_index = len(self.run_dirs(output_path)) *)
next_run_index_by(process) ==
    /\ at(process, "run_dirs")
    /\ op' = [op EXCEPT !.processes[process].pc = "makedirs",
                        !.processes[process].next_run_index = Len(run_dirs_of(0))]
    /\ UNCHANGED <<run_dirs, submitted>>
    /\ UNCHANGED race_frame

(* make_new_run_dir: os.makedirs(run_dir, exist_ok=False) *)
makedirs_by(process) ==
    /\ at(process, "makedirs")
    /\ LET next_run_index == op.processes[process].next_run_index
       IN IF next_run_index < Len(run_dirs_of(0))
          THEN /\ op' = goto(process, "FileExistsError")
               /\ run_dirs' = run_dirs
          ELSE /\ op' = [op EXCEPT !.processes[process].pc = "start_run",
                                   !.processes[process].run_dir = <<0, next_run_index>>]
               /\ run_dirs' = [run_dirs EXCEPT ![0] = Append(@, EmptyRunDir)]
    /\ UNCHANGED submitted
    /\ UNCHANGED race_frame

(* the years left after last_run_dir, the output files of last_run_dir, and
   start_run up to its wait *)
start_run_by(process) ==
    /\ at(process, "start_run")
    /\ LET last == op.processes[process].last_run_dir
           dir == op.processes[process].run_dir
           spinup_options == model_options.spinup_options
           tracer_input == IF last # None THEN tracer_output_files(last) ELSE Initial
       IN /\ run_dirs' = [run_dirs EXCEPT ![0][dir[2] + 1] =
                             start_run(new_run_years(last, spinup_options), spinup_options.tolerance,
                                       tracer_input)]
          /\ submitted' = job_started("spinup", dir)
    /\ op' = goto(process, "wait_new")
    /\ UNCHANGED race_frame

(* the wait of start_run returns and matching_run_dir returns the new run *)
start_run_finished_by(process) ==
    /\ at(process, "wait_new")
    /\ wait_until_finished(op.processes[process].run_dir)
    /\ run_dirs' = made_read_only(run_dirs, op.processes[process].run_dir)
    /\ op' = goto(process, "done")
    /\ UNCHANGED submitted
    /\ UNCHANGED race_frame

(* the batch system: a started job of the chain finishes *)
job_of_chain_finishes(k) ==
    /\ op.kind = "race"
    /\ job_finishes(0, k)

(* the requests no run of the chain matches when the processes begin *)
InitRace ==
    /\ parameters_db = <<0>>
    /\ run_dirs \in {[i \in SetIndices |-> IF i = 0 THEN c ELSE <<>>] : c \in InitChains(0, InitRuns)}
    /\ start_from_closest_parameters = FALSE
    /\ model_options \in {[parameters |-> 0, spinup_options |-> o] :
                             o \in {x \in SpinupOptions : x.combination = "or" /\ x.match_type = "exact"}}
    /\ ~is_run_matching_options(last_run_dir(0), model_options.spinup_options, TRUE)
    /\ pc = "idle"
    /\ call = NoCall
    /\ result = NoResult
    /\ op = [kind |-> "race", processes |-> [process \in Processes |-> NoProcess]]
    /\ derivative_dirs = NoDerivativeDirs
    /\ open_jobs = 0
    /\ submitted = <<>>
    /\ faults = FALSE

NextRace ==
    \/ \E process \in Processes : last_run_dir_by(process)
    \/ \E process \in Processes : wait_until_run_finished_by(process)
    \/ \E process \in Processes : next_run_index_by(process)
    \/ \E process \in Processes : makedirs_by(process)
    \/ \E process \in Processes : start_run_by(process)
    \/ \E process \in Processes : start_run_finished_by(process)
    \/ \E k \in 0..(InitRuns + 2) : job_of_chain_finishes(k)

SpecRace == InitRace /\ [][NextRace]_vars

-----------------------------------------------------------------------------
(* Model_Database.check_integrity, for one model with one constant
   concentration and one time step: the parameter sets are those of
   parameters_db.  What the stores report is an input. *)

(* the stores that may be inconsistent *)
Stores == {"constant_concentrations", "vector_concentrations", "parameters"}

(* the stores check_integrity asks, in its order: the vector concentrations
   store is not among them *)
checked_stores == <<"constant_concentrations", "parameters">>

(* DatabaseError(database, message): the exception that reaches the caller.
   __init__ reads self.database_output_dir, which the exception does not have. *)
DatabaseError(database, message) == Raised("AttributeError")

(* the stored parameter sets without a run directory *)
parameter_sets_without_run == {i \in 0..(Len(parameters_db) - 1) : last_run_dir(i) = None}

check_integrity ==
    /\ pc = "idle"
    /\ op.kind = "integrity"
    /\ LET reported == {k \in DOMAIN checked_stores : checked_stores[k] \in op.inconsistent}
       IN IF reported # {}
          THEN /\ pc' = "error"
               /\ result' = Raised("index_database.DatabaseError")
               /\ op' = [op EXCEPT !.logged = TRUE]
          ELSE \/ /\ "vector_concentrations" \in op.inconsistent
                  /\ pc' = "error"
                  /\ result' = Raised("index_database.DatabaseError")
                  /\ op' = op
               \/ /\ parameter_sets_without_run # {}
                  /\ pc' = "error"
                  /\ result' = DatabaseError("self", "It is no run dir")
                  /\ op' = op
               \/ /\ parameter_sets_without_run = {}
                  /\ pc' = "done"
                  /\ result' = Value("integrity", TRUE)
                  /\ op' = op
    /\ UNCHANGED <<parameters_db, run_dirs, start_from_closest_parameters, model_options, call,
                   derivative_dirs, open_jobs, submitted, faults>>

InitIntegrity ==
    /\ parameters_db \in InitStores
    /\ run_dirs \in InitRunDirs(parameters_db)
    /\ start_from_closest_parameters = FALSE
    /\ model_options = NoRequest
    /\ pc = "idle"
    /\ call = NoCall
    /\ result = NoResult
    /\ op \in {[kind |-> "integrity", inconsistent |-> inconsistent, logged |-> FALSE] :
                  inconsistent \in SUBSET Stores}
    /\ derivative_dirs = NoDerivativeDirs
    /\ open_jobs = 0
    /\ submitted = <<>>
    /\ faults = FALSE

NextIntegrity == check_integrity

SpecIntegrity == InitIntegrity /\ [][NextIntegrity]_vars

-----------------------------------------------------------------------------
(* The second pass of _df and the unpacking of its result: the trajectories of
   the stencil points are concatenated over the tracers, the offsets of the
   tracers are kept in tracer_start_stop_indices, and the derivative is cut
   back into one block per tracer. *)

(* the tracers a request may name: in the order of the model *)
TracerSelections == {<<>>, <<Tracers[1]>>, <<Tracers[2]>>, Tracers}

(* df_all(time_dim, tracers) and df_points(points): len gives time_dim, or the
   number of points given for a tracer of points.keys() *)
DerivativeRequests ==
    {[kind |-> "df_all", tracers |-> t, len |-> [k \in DOMAIN t |-> d]] :
        t \in TracerSelections \ {<<>>}, d \in 1..MaxLen}
    \cup UNION {{[kind |-> "df_points", tracers |-> t, len |-> l] : l \in [DOMAIN t -> 0..MaxLen]} :
                   t \in TracerSelections}

(* the tracers of _df: those given by df_all; df_points gives none and
   check_tracers takes all tracers of the model *)
tracers_of_df(request) == check_tracers(request.tracers, request.kind = "df_all")

(* len(trajectory_dict[tracer]): the load function of df_points gives an empty
   array for a tracer without points *)
trajectory_len(request, tracer) ==
    IF \E k \in DOMAIN request.tracers : request.tracers[k] = tracer
    THEN request.len[CHOOSE k \in DOMAIN request.tracers : request.tracers[k] = tracer]
    ELSE 0

(* trajectory_list of a stencil point: one array per tracer of _df *)
trajectory_list(request, tracers, point) ==
    [k \in DOMAIN tracers |->
        [j \in 1..trajectory_len(request, tracers[k]) |-> <<tracers[k], j, point>>]]

RECURSIVE stop_indices(_, _)
(* the loop that appends the stop index of each trajectory *)
stop_indices(indices, trajectories) ==
    IF Len(trajectories) = 0 THEN indices
    ELSE stop_indices(Append(indices, indices[Len(indices)] + Len(Head(trajectories))),
                      Tail(trajectories))

(* store length of each tracer: only while the list holds its first entry *)
store_length_of_each_tracer(tracer_start_stop_indices, trajectories) ==
    IF Len(tracer_start_stop_indices) = 1
    THEN stop_indices(tracer_start_stop_indices, trajectories)
    ELSE tracer_start_stop_indices

(* the finite differences of the values of the points, the parameter axes moved
   to the end: one entry per entry of a value *)
df_concatenated(values) == [j \in DOMAIN values[1] |-> values[1][j][1]]

(* df_concatenated[start:stop], with the clipping of a python slice *)
slice(array, start, stop) ==
    [j \in 1..(IF Min(stop, Len(array)) > start THEN Min(stop, Len(array)) - start ELSE 0) |->
        array[start + j]]

(* _df from tracer_start_stop_indices = [0] on, when the tracers are not empty *)
enter_fan_in(request, points) ==
    /\ pc = "idle"
    /\ Len(tracers_of_df(request)) > 0
    /\ pc' = "fan_in"
    /\ op' = [kind |-> "unpack", request |-> request, tracers |-> tracers_of_df(request),
              points |-> points, pos |-> 1, tracer_start_stop_indices |-> <<0>>,
              written |-> <<>>, values |-> <<>>, df |-> <<>>]
    /\ UNCHANGED <<parameters_db, run_dirs, start_from_closest_parameters, model_options, call, result,
                   derivative_dirs, open_jobs, submitted, faults>>

(* get_partial_derivative_run_value after the wait: the trajectories of the
   point are listed, their lengths stored, and their concatenation returned *)
concatenate_trajectory ==
    /\ pc = "fan_in"
    /\ op.kind = "unpack"
    /\ LET trajectories == trajectory_list(op.request, op.tracers, op.pos)
           stored == store_length_of_each_tracer(op.tracer_start_stop_indices, trajectories)
       IN op' = [op EXCEPT !.tracer_start_stop_indices = stored,
                           !.written = IF stored # op.tracer_start_stop_indices
                                       THEN Append(@, op.pos) ELSE @,
                           !.values = Append(@, concatenate(trajectories)),
                           !.pos = @ + 1]
    /\ pc' = IF op.pos = op.points THEN "unpack" ELSE "fan_in"
    /\ UNCHANGED <<parameters_db, run_dirs, start_from_closest_parameters, model_options, call, result,
                   derivative_dirs, open_jobs, submitted, faults>>

(* the largest entry of a list of indices *)
max(indices) == CHOOSE m \in {indices[k] : k \in DOMAIN indices} :
                    \A k \in DOMAIN indices : indices[k] <= m

(* unpack concatenation *)
unpack_concatenation ==
    /\ pc = "unpack"
    /\ op.kind = "unpack"
    /\ LET concatenated == df_concatenated(op.values)
           indices == op.tracer_start_stop_indices
       IN IF /\ Len(indices) = Len(op.tracers) + 1
             /\ max(indices) = Len(concatenated)
          THEN /\ op' = [op EXCEPT !.df = [k \in DOMAIN op.tracers |->
                                              [tracer |-> op.tracers[k],
                                               df_tracer |-> slice(concatenated, indices[k], indices[k + 1])]]]
               /\ pc' = "done"
               /\ result' = Value("df", op'.df)
          ELSE /\ op' = op
               /\ pc' = "error"
               /\ result' = Raised("AssertionError")
    /\ UNCHANGED <<parameters_db, run_dirs, start_from_closest_parameters, model_options, call,
                   derivative_dirs, open_jobs, submitted, faults>>

(* f_points(points): _f is given tracers = points.keys(), reads one trajectory
   per tracer and returns them under these tracers; points is a df_points
   request read as its points mapping *)
f_points_values(points) ==
    /\ pc = "idle"
    /\ points.kind = "df_points"
    /\ LET tracers == check_tracers(points.tracers, TRUE)
       IN op' = [kind |-> "f_points", request |-> points, tracers |-> tracers,
                 f |-> [k \in DOMAIN tracers |->
                          [tracer |-> tracers[k],
                           f_tracer |-> [j \in 1..trajectory_len(points, tracers[k]) |-> tracers[k]]]]]
    /\ pc' = "done"
    /\ result' = Value("f", op'.f)
    /\ UNCHANGED <<parameters_db, run_dirs, start_from_closest_parameters, model_options, call,
                   derivative_dirs, open_jobs, submitted, faults>>

InitUnpack ==
    /\ parameters_db = <<>>
    /\ run_dirs = [i \in SetIndices |-> <<>>]
    /\ start_from_closest_parameters = FALSE
    /\ model_options = NoRequest
    /\ pc = "idle"
    /\ call = NoCall
    /\ result = NoResult
    /\ op = NoOp
    /\ derivative_dirs = NoDerivativeDirs
    /\ open_jobs = 0
    /\ submitted = <<>>
    /\ faults = FALSE

NextUnpack ==
    \/ \E request \in DerivativeRequests, points \in 2..3 : enter_fan_in(request, points)
    \/ \E points \in DerivativeRequests : f_points_values(points)
    \/ concatenate_trajectory
    \/ unpack_concatenation

SpecUnpack == InitUnpack /\ [][NextUnpack]_vars

-----------------------------------------------------------------------------
(* Properties. *)

RECURSIVE YearsUpTo(_, _)
(* the sum of the achieved years of runs 0..k of a chain, counted from run 0 *)
YearsUpTo(chain, k) == IF k < 0 THEN 0 ELSE YearsUpTo(chain, k - 1) + chain[k + 1].last_year

AllRunDirs == {d \in SetIndices \X (0..(InitRuns + 2)) : d[2] < Len(run_dirs[d[1]])}

OrOptions == {o \in SpinupOptions : o.combination = "or"}
AndOptions == {o \in SpinupOptions : o.combination = "and"}

RequestIndex == db_index(parameters_db, model_options.parameters)
RequestOptions == model_options.spinup_options

OrMatches(d, o) ==
    YearsUpTo(run_dirs[d[1]], d[2]) >= o.years \/ run_dirs[d[1]][d[2] + 1].last_tolerance <= o.tolerance

AndMatches(d, o) ==
    \/ YearsUpTo(run_dirs[d[1]], d[2]) >= o.years /\ run_dirs[d[1]][d[2] + 1].last_tolerance <= o.tolerance
    \/ YearsUpTo(run_dirs[d[1]], d[2]) >= model_spinup_max_years

(* C1: for "or" options is_run_matching_options is true exactly when the years
   accumulated over the run and its predecessors are >= options.years or the
   run's tolerance is <= options.tolerance, and false for a missing run; the
   answer of is_matching_run_available is that of the chain's last run. *)
C1_OrMatching ==
    /\ pc = "idle" => \A o \in OrOptions :
          /\ ~is_run_matching_options(None, o, TRUE)
          /\ \A d \in AllRunDirs : is_run_matching_options(d, o, TRUE) = OrMatches(d, o)
    /\ (pc = "done" /\ result.kind = "bool" /\ RequestOptions.combination = "or")
          => result.value = /\ last_run_dir(RequestIndex) # None
                            /\ OrMatches(last_run_dir(RequestIndex), RequestOptions)

C1_Witness ==
    /\ pc = "done" /\ result.kind = "bool" /\ result.value
    /\ RequestOptions.combination = "or"
    /\ Len(run_dirs[0]) >= 2
    /\ real_years(last_run_dir(0), TRUE) = RequestOptions.years
    /\ real_tolerance(last_run_dir(0)) > RequestOptions.tolerance

(* C2: for "and" options is_run_matching_options is true exactly when (years
   accumulated >= years and tolerance <= tolerance) or years accumulated >= the
   maximum of spinup years; with years 1000, tolerance 1e-4 and maximum 5000
   (tolerances in units of 1e-5), 5000 years at tolerance 1e-2 match and 999
   years at tolerance 1e-5 do not. *)
C2_AndMatching ==
    /\ pc = "idle" => \A o \in AndOptions :
          /\ ~is_run_matching_options(None, o, TRUE)
          /\ \A d \in AllRunDirs : is_run_matching_options(d, o, TRUE) = AndMatches(d, o)
    /\ (pc = "done" /\ result.kind = "bool" /\ RequestOptions.combination = "and")
          => result.value = /\ last_run_dir(RequestIndex) # None
                            /\ AndMatches(last_run_dir(RequestIndex), RequestOptions)
    /\ is_matching(5000, 1000, 1000, 10, "and", 5000)
    /\ ~is_matching(999, 1, 1000, 10, "and", 5000)

C2_Witness ==
    /\ pc = "done" /\ result.kind = "bool" /\ result.value
    /\ RequestOptions.combination = "and"
    /\ Len(run_dirs[0]) >= 2
    /\ real_years(last_run_dir(0), TRUE) >= model_spinup_max_years
    /\ real_tolerance(last_run_dir(0)) > RequestOptions.tolerance

ExampleDirs ==
    [i \in SetIndices |-> IF i = 0 THEN <<[last_year |-> 5], [last_year |-> 3], [last_year |-> 7]>> ELSE <<>>]

(* C3: real_years of run k with the previous runs is the sum of the achieved
   years of runs 0..k (15 for the last run of a chain of 5, 3 and 7 years), and
   without them the achieved years of run k alone. *)
C3_RealYears ==
    /\ pc = "idle" => \A d \in AllRunDirs :
          /\ real_years(d, TRUE) = YearsUpTo(run_dirs[d[1]], d[2])
          /\ real_years(d, FALSE) = run_dirs[d[1]][d[2] + 1].last_year
    /\ real_years_in(ExampleDirs, <<0, 2>>, TRUE) = 15
    /\ real_years_in(ExampleDirs, <<0, 2>>, FALSE) = 7
    /\ (pc = "done" /\ result.kind = "real_years")
          => result.years = YearsUpTo(run_dirs[result.run_dir[1]], result.run_dir[2])
    /\ (pc = "done" /\ result.kind = "years")
          => result.years = job(result.run_dir).last_year

C3_Witness ==
    /\ pc = "done" /\ result.kind = "real_years"
    /\ result.run_dir = <<0, 2>>
    /\ result.years = run_dirs[0][1].last_year + run_dirs[0][2].last_year + run_dirs[0][3].last_year
    /\ result.years >= 5

(* C4: with match type equal_or_nearest_better the run matching_run_dir returns
   is the earliest run of the chain that matches the options: no earlier run of
   the chain matches them. *)
C4_EarliestMatchingRun ==
    (pc = "done" /\ result.kind = "run_dir" /\ RequestOptions.match_type = "equal_or_nearest_better")
        => \A k \in 0..(result.run_dir[2] - 1) :
              ~is_run_matching_options(<<result.run_dir[1], k>>, RequestOptions, TRUE)

(* C5: for "or" options matching_run_dir ends by returning a run: it raises no
   exception, the run is a run of the chain of the requested parameters, and
   this run matches the requested options. *)
C5_OrRequestSatisfied ==
    /\ (pc = "error" => RequestOptions.combination # "or")
    /\ (pc = "done" /\ result.kind = "run_dir" /\ RequestOptions.combination = "or")
          => /\ result.run_dir # None
             /\ result.run_dir[1] = RequestIndex
             /\ is_run_matching_options(result.run_dir, RequestOptions, TRUE)

(* C6: for "and" options the run matching_run_dir returns matches the requested
   options: years and tolerance are both met, or the maximum of spinup years is
   reached. *)
C6_AndRequestSatisfied ==
    (pc = "done" /\ result.kind = "run_dir" /\ RequestOptions.combination = "and")
        => /\ result.run_dir # None
           /\ is_run_matching_options(result.run_dir, RequestOptions, TRUE)

ClosestRunDirs ==
    {last_run_dir(c) : c \in {x \in closest_index(parameters_db, model_options.parameters) : last_run_dir(x) # None}}

(* C7: the resolution of a request whose parameter set has no run raises no
   exception; the first run starts from the last run of the closest parameter
   set when starting from the closest parameters is enabled and that set has a
   run, and from the configured initial concentrations in every other case. *)
C7_FirstRunNeverFails ==
    /\ pc # "error"
    /\ (pc = "wait_new" /\ call.run_dir[2] = 0)
          => IF start_from_closest_parameters /\ ClosestRunDirs # {}
             THEN job(call.run_dir).tracer_input \in ClosestRunDirs
             ELSE job(call.run_dir).tracer_input = Initial

(* C8: when "or" options do not match a chain that has runs, matching_run_dir
   appends one run after the last one, started from the output of the last run,
   for the requested years less the years accumulated by the chain and with the
   requested tolerance; once its job has finished the chain has accumulated the
   requested years, unless the tolerance was met before. *)
C8_ExtensionOfChain ==
    (pc = "wait_new" /\ call.last_run_dir # None /\ call.last_run_dir[1] = call.run_dir[1])
        => /\ call.run_dir = <<RequestIndex, call.last_run_dir[2] + 1>>
           /\ Len(run_dirs[RequestIndex]) = call.run_dir[2] + 1
           /\ job(call.run_dir).tracer_input = call.last_run_dir
           /\ job(call.run_dir).years
                 = call.spinup_options.years - YearsUpTo(run_dirs[RequestIndex], call.last_run_dir[2])
           /\ job(call.run_dir).years > 0
           /\ job(call.run_dir).tolerance = call.spinup_options.tolerance
           /\ job(call.run_dir).finished
                 => \/ YearsUpTo(run_dirs[RequestIndex], call.run_dir[2]) = call.spinup_options.years
                    \/ job(call.run_dir).last_tolerance <= call.spinup_options.tolerance

C8_Witness ==
    /\ pc = "wait_new" /\ call.last_run_dir # None /\ call.last_run_dir[1] = call.run_dir[1]
    /\ job(call.run_dir).finished
    /\ job(call.run_dir).years >= 2
    /\ job(call.run_dir).last_tolerance > call.spinup_options.tolerance
    /\ real_years(call.run_dir, TRUE) = call.spinup_options.years

(* C9: every run after the first of a chain was started from the output of the
   run before it in the same chain. *)
C9_WarmStartFromPredecessor ==
    \A d \in AllRunDirs : d[2] > 0 => job(d).tracer_input = <<d[1], d[2] - 1>>

C9_Witness ==
    /\ pc = "wait_new" /\ call.run_dir[2] > 0
    /\ ~job(call.run_dir).finished
    /\ job(call.run_dir).tracer_input = <<call.run_dir[1], call.run_dir[2] - 1>>

(* C10: the output of a run is read-only only when its job has finished, and
   matching_run_dir returns only when the job of every run it started has
   finished. *)
C10_ReadOnlyAfterFinished ==
    /\ \A d \in AllRunDirs : job(d).read_only_output => job(d).finished
    /\ pc = "done" => \A d \in AllRunDirs : job(d).finished

C10_Witness ==
    /\ pc = "done" /\ result.kind = "run_dir"
    /\ result.run_dir[2] = InitRuns
    /\ job(result.run_dir).read_only_output
    /\ job(result.run_dir).finished

(* C17: splitting the merged data sets with the split dictionary of the merge
   gives the mapping back, for every mapping of tracers to plain arrays or to
   named arrays, a tracer without data sets and data sets of length zero
   included: names, lengths and values are those of the mapping. *)
C17_MergeSplitRoundTrip ==
    (pc = "done" /\ op.kind = "merge")
        => /\ result.kind = "split"
           /\ result.value = op.tracer_dict

SamePerturbedParameters(a, b) ==
    \A i \in ParameterIndices : (a[i] = 0) = (b[i] = 0)

AscendingIndices(ids) ==
    \A j, k \in DOMAIN ids : j < k => ids[j][1] < ids[k][1]

ReservedId == <<<<-1, 0>>>>

FactorIdShape(point, ids) ==
    /\ AscendingIndices(ids)
    /\ (ids = ReservedId) = (\A i \in ParameterIndices : point[i] = 0)
    /\ (ids # ReservedId) => {ids[k][1] : k \in DOMAIN ids} = {i \in ParameterIndices : point[i] # 0}

(* C14: two perturbations of the same parameters whose step multipliers differ
   by less than the precision of the id have identical ids; the id lists the
   perturbed parameters in ascending index order, and only the unperturbed
   point has the reserved id (index -1, factor 0). *)
C14_FactorIdPurity ==
    (pc = "done" /\ op.kind = "factor_ids")
        => /\ SamePerturbedParameters(op.points[1], op.points[2])
                 => result.value[1] = result.value[2]
           /\ \A k \in {1, 2} : FactorIdShape(op.points[k], result.value[k])

(* a multiple of the precision that both steps are less than half a unit away from *)
SameNearestMultiple(a, b) ==
    \E g \in (-MaxStep - 1)..(MaxStep + 1) :
        /\ 2 * Abs(a - g * Fine) < Fine
        /\ 2 * Abs(b - g * Fine) < Fine

(* C14 amended: two perturbations of the same parameters whose step multipliers
   are each less than half the precision away from the same multiple of the
   precision have identical ids; the id lists the perturbed parameters in
   ascending index order, and only the unperturbed point has the reserved id. *)
C14_FactorIdRounded ==
    (pc = "done" /\ op.kind = "factor_ids")
        => /\ (/\ SamePerturbedParameters(op.points[1], op.points[2])
               /\ \A i \in ParameterIndices : SameNearestMultiple(op.points[1][i], op.points[2][i]))
                 => result.value[1] = result.value[2]
           /\ \A k \in {1, 2} : FactorIdShape(op.points[k], result.value[k])

C14_Witness ==
    /\ pc = "done" /\ op.kind = "factor_ids"
    /\ op.points[1] # op.points[2]
    /\ \A i \in ParameterIndices :
          /\ op.points[1][i] # op.points[2][i]
          /\ SameNearestMultiple(op.points[1][i], op.points[2][i])
          /\ op.points[1][i] > Fine \div 2
    /\ result.value[1] = result.value[2]
    /\ Len(result.value[1]) = 2

(* C11: a value request f_all for zero tracers returns the empty mapping and
   submits no job of any kind, whatever the chain of the parameter set holds. *)
C11_ZeroTracerValue ==
    (op.kind = "f_all" /\ Len(op.tracers) = 0)
        => /\ submitted = <<>>
           /\ pc = "done" => result = Value("f", <<>>)

(* C12: a derivative request for zero requested tracers returns the empty
   mapping, submits no job, makes no run or derivative directory and leaves the
   parameter store as it was, whatever the chain of the parameter set holds. *)
C12_ZeroTracerDerivative ==
    (op.kind \in {"df_all", "df_points"} /\ Len(op.tracers) = 0)
        => /\ submitted = <<>>
           /\ parameters_db = op.parameters_db
           /\ derivative_dirs = op.derivative_dirs
           /\ pc = "done" => result = Value("df", <<>>)

(* the directory of a stencil point held a run with the derivative years
   achieved that was started from a spinup run matching the requested options *)
Reusable(run) ==
    /\ run.state = "job"
    /\ run.last_year >= derivative_years
    /\ is_run_matching_options(run.tracer_input, model_options.spinup_options, TRUE)

JobsSubmittedInto(id) ==
    Cardinality({k \in DOMAIN submitted : submitted[k] = [kind |-> "derivative", dir |-> id]})

(* C13: for each stencil point, a run in its directory with the derivative
   years achieved and a seeding spinup run matching the requested spinup
   options is reused without a job; otherwise the directory is purged and
   exactly one new job is submitted into it. *)
C13_ReuseOrResubmit ==
    op.kind \in {"df_all", "df_points"}
        => \A k \in DOMAIN op.decisions :
              LET d == op.decisions[k]
              IN IF Reusable(d.before)
                 THEN d.decision = "reused" /\ JobsSubmittedInto(d.id) = 0
                 ELSE /\ d.decision = "submitted"
                      /\ JobsSubmittedInto(d.id) = 1
                      /\ derivative_dirs[d.id].tracer_input = op.spinup_matching_run_dir
                      /\ derivative_dirs[d.id].parameters = d.point

(* the engine blocks, or has blocked, on the job of a partial derivative run *)
WaitsOnPartialDerivativeJob ==
    /\ op.kind \in {"df_all", "df_points"}
    /\ pc \in {"fan_in", "wait_trajectory"} \/ Len(op.values) > 0

(* C15: before the engine blocks on any partial derivative job, the job of
   every stencil point has been submitted or found reusable, and the engine
   waits only on directories registered by those decisions. *)
C15_FanOutBeforeFanIn ==
    WaitsOnPartialDerivativeJob
        => /\ Len(op.decisions) = Len(op.stencil)
           /\ \A k \in DOMAIN op.stencil :
                 /\ op.decisions[k].point = op.stencil[k]
                 /\ op.decisions[k].decision \in {"reused", "submitted"}
                 /\ <<op.stencil[k], op.decisions[k].id>> \in op.partial_derivative_dirs
                 /\ op.decisions[k].decision = "submitted"
                       => \E j \in DOMAIN submitted :
                             submitted[j] = [kind |-> "derivative", dir |-> op.decisions[k].id]
           /\ \A k \in DOMAIN op.values :
                 \E e \in op.partial_derivative_dirs : e[2] = op.values[k][1]

C15_Witness ==
    /\ WaitsOnPartialDerivativeJob
    /\ pc = "fan_in"
    /\ op.pos = 2
    /\ Len(op.stencil) = 3
    /\ \E k \in DOMAIN op.decisions : op.decisions[k].decision = "reused"
    /\ \E k \in DOMAIN op.decisions :
          /\ op.decisions[k].decision = "submitted"
          /\ ~derivative_dirs[op.decisions[k].id].finished

(* C16: whatever the order in which the outstanding jobs finish, the engine
   waits on the stencil points in stencil order and the value of each point,
   read from the directory of its factor id, enters the finite-difference
   evaluator at the position of the point. *)
C16_AssemblyInStencilOrder ==
    op.kind \in {"df_all", "df_points"}
        => /\ \A k \in DOMAIN op.values :
                 op.values[k] = <<factor_ids(op.stencil[k]), op.stencil[k]>>
           /\ (pc = "done" /\ op.stage # "none")
                 => /\ Len(op.values) = Len(op.stencil)
                    /\ result = Value("df", op.values)

C16_Witness ==
    /\ op.kind \in {"df_all", "df_points"}
    /\ pc = "done"
    /\ Len(op.stencil) = 3
    /\ Len(op.finished_order) = 3
    /\ op.finished_order[1] = factor_ids(op.stencil[3])
    /\ op.finished_order[3] = factor_ids(op.stencil[1])
    /\ result.value[1][1] = factor_ids(op.stencil[1])

(* C18: a failure to remove a stale partial derivative run, or a temporary
   trajectory directory, gives a warning and is not raised: a derivative
   computation never ends with the OSError of a removal. *)
C18_CleanupBestEffort ==
    op.kind \in {"df_all", "df_points"} => result # Raised("OSError")

(* the job record of the directory was missing or unreadable at the probe *)
NoJobRecord(run) == run.state \in {"none", "malformed"}

(* C19: a partial derivative directory whose job record is missing or
   malformed when probed is treated as holding no run: it is purged, a new job
   is submitted into it, and no error reaches the caller. *)
C19_MalformedRecordIsNoRun ==
    op.kind \in {"df_all", "df_points"}
        => \A k \in DOMAIN op.decisions :
              NoJobRecord(op.decisions[k].before)
                  => /\ op.decisions[k].decision = "submitted"
                     /\ JobsSubmittedInto(op.decisions[k].id) = 1
                     /\ derivative_dirs[op.decisions[k].id].state = "job"

(* C20: when a public operation has returned or raised, no job handle is open. *)
C20_JobHandlesReleased ==
    pc \in {"idle", "done", "error"} => open_jobs = 0

C20_Witness ==
    /\ pc = "error"
    /\ result = Raised("JobError")
    /\ op.kind \in {"df_all", "df_points"}
    /\ Len(op.values) > 0
    /\ open_jobs = 0

(* C21: two requests with parameters equal within the tolerance resolve to the
   same stored index, and once each has been resolved no further resolution
   adds an index to the store. *)
C21_SameIndexNoGrowth ==
    op.kind = "index"
        => \A i, j \in DOMAIN op.indices :
              /\ op.indices[i].index = op.indices[j].index
              /\ i < j => op.indices[j].stored <= op.indices[1].stored

(* a requested tracer is not a tracer of the model *)
UnsupportedTracerRequested ==
    /\ op.kind \in {"f_all", "f_points", "df_all", "df_points"}
    /\ \E k \in DOMAIN op.tracers : \A j \in DOMAIN Tracers : op.tracers[k] # Tracers[j]

(* C22: a request for a tracer the model does not support, through f_all,
   f_points, df_all or df_points, fails with ValueError before any job is
   submitted and before any run or derivative directory is made. *)
C22_UnsupportedTracer ==
    UnsupportedTracerRequested
        => /\ pc = "error"
           /\ result = Raised("ValueError")
           /\ submitted = <<>>
           /\ run_dirs = op.run_dirs
           /\ derivative_dirs = op.derivative_dirs
           /\ parameters_db = op.parameters_db

C22_Witness ==
    /\ UnsupportedTracerRequested
    /\ op.kind = "df_points"
    /\ pc = "error"
    /\ Len(run_dirs[0]) = 0

(* C23: a spinup request whose combination is neither "and" nor "or" fails
   with ValueError, whether the chain of its parameter set is empty or not, and
   starts no job. *)
C23_UnknownCombination ==
    model_options.spinup_options.combination = "xor"
        => /\ submitted = <<>>
           /\ pc \in {"enter", "error"}
           /\ pc = "enter" => call.phase = 0
           /\ pc = "error" => result = Raised("ValueError")

(* C24: with the total concentration factor included, every job of a
   derivative computation gets the real model parameters only, and the factor
   of a point reaches its job as total concentration factor and nowhere else;
   without it every job gets the total concentration factor 1. *)
C24_ScaleParameterSeparated ==
    op.kind = "job_parameters"
        => \A k \in DOMAIN submitted :
              LET started == submitted[k]
              IN /\ Len(started.model_parameters) = parameters_len
                 /\ \A i \in 1..parameters_len : started.model_parameters[i] = started.point[i]
                 /\ ~op.include_total_concentration => started.total_concentration_factor = 1
                 /\ (op.include_total_concentration /\ started.kind = "derivative")
                       => started.total_concentration_factor = started.point[parameters_len + 1]

C24_Witness ==
    /\ op.kind = "job_parameters"
    /\ op.include_total_concentration
    /\ op.stage = "done"
    /\ \E k \in DOMAIN submitted :
          /\ submitted[k].kind = "derivative"
          /\ submitted[k].total_concentration_factor = 2
          /\ submitted[k].model_parameters = op.model_parameter

(* C26: when the search of a spinup directory finds no run directory, or fails
   with a filesystem error, last_run_dir returns None without an error and
   is_run_matching_options is false for it. *)
C26_NoRunIsNotAnError ==
    (pc = "done" /\ op.kind = "discovery" /\ (faults \/ Len(run_dirs[op.index]) = 0))
        => /\ result.kind = "last_run_dir"
           /\ result.run_dir = None
           /\ result.value = FALSE

C26_Witness ==
    /\ pc = "done" /\ op.kind = "discovery"
    /\ faults
    /\ Len(run_dirs[op.index]) > 1
    /\ result.run_dir = None

(* C27: check_integrity fails whenever the stored state is inconsistent: an
   inconsistency of a concentration or parameter store is logged and raised
   again, and a stored parameter set without a run directory makes it raise
   DatabaseError. *)
C27_IntegrityFailsLoud ==
    (op.kind = "integrity" /\ pc # "idle")
        => /\ op.inconsistent # {}
                 => /\ pc = "error"
                    /\ result = Raised("index_database.DatabaseError")
                    /\ op.logged
           /\ (op.inconsistent = {} /\ parameter_sets_without_run # {})
                 => /\ pc = "error"
                    /\ result = Raised("DatabaseError")

AndRequest == model_options.spinup_options.combination = "and"

(* what the call of matching_run_dir under way returns when it returns now *)
ReturnedByCall ==
    IF pc = "wait_new"
    THEN call.run_dir
    ELSE matched_run_dir(last_run_dir(RequestIndex), call.spinup_options)

DerivativeRunning ==
    /\ op.kind \in {"df_all", "df_points"}
    /\ pc \in {"fan_out", "fan_in", "wait_trajectory"}

DerivativeReturned ==
    /\ op.kind \in {"df_all", "df_points"}
    /\ op.stage # "none"
    /\ pc = "done"

DerivativeEnded == op.kind \in {"df_all", "df_points"} /\ pc \in {"done", "error"}

(* the batch system finishes every job it was given *)
AllJobsEventuallyFinish ==
    /\ \A id \in FactorIds : WF_vars(partial_derivative_job_finishes(id))
    /\ WF_vars(trajectory_job_finishes)

(* C29: a derivative is returned only when the job of every stencil point has
   finished; while the job of the point waited on runs, the operation stays in
   that wait unless the wait itself raises, and no step cancels or replaces a
   running partial derivative job or submits a second job into its directory;
   if the batch system finishes every job, an operation that has reached its
   stencil points ends. *)
C29_BlocksUntilEveryJobFinished ==
    /\ [](DerivativeReturned
             => /\ Len(op.decisions) = Len(op.stencil)
                /\ \A k \in DOMAIN op.stencil :
                      derivative_dirs[partial_derivative_dir_of(op.partial_derivative_dirs,
                                                                 op.stencil[k])].finished)
    /\ [][/\ (/\ op.kind \in {"df_all", "df_points"}
              /\ pc = "fan_in"
              /\ ~derivative_dirs[partial_derivative_dir_of(op.partial_derivative_dirs,
                                                             op.stencil[op.pos])].finished)
                => /\ pc' \in {"fan_in", "error"}
                   /\ op'.pos = op.pos
                   /\ submitted' = submitted
          /\ \A id \in FactorIds :
                (derivative_dirs[id].state = "job" /\ ~derivative_dirs[id].finished)
                    => /\ derivative_dirs'[id].state = "job"
                       /\ derivative_dirs'[id].tracer_input = derivative_dirs[id].tracer_input
                       /\ JobsSubmittedInto(id)' = JobsSubmittedInto(id)
         ]_vars
    /\ (AllJobsEventuallyFinish => (DerivativeRunning ~> DerivativeEnded))

C29_Witness ==
    /\ DerivativeReturned
    /\ ~faults
    /\ Len(op.stencil) = 3
    /\ \E k \in DOMAIN op.decisions : op.decisions[k].decision = "submitted"
    /\ Len(op.finished_order) >= 2
    /\ Len(result.value) = 3

(* C28: an "and" request that does not match is resolved by two "or"
   resolutions one after the other and by nothing else: the first for the
   requested years and tolerance 0, the second for the maximum of spinup years
   and the requested tolerance, on the chain as the first left it; the run
   returned is the one the second returns.  (A resolution that raises returns
   no run.) *)
C28_AndAsTwoOrResolutions ==
    [][/\ (call'.phase = 1 /\ call.phase # 1)
             => /\ call.phase = 0
                /\ AndRequest
                /\ ~is_run_matching_options(last_run_dir(RequestIndex), RequestOptions, TRUE)
                /\ call'.spinup_options.years = RequestOptions.years
                /\ call'.spinup_options.tolerance = 0
                /\ call'.spinup_options.combination = "or"
       /\ (call.phase = 1 /\ call'.phase # 1 /\ pc' # "error")
             => /\ call'.phase = 2
                /\ pc' = "enter"
                /\ call'.spinup_options.years = model_spinup_max_years
                /\ call'.spinup_options.tolerance = RequestOptions.tolerance
                /\ call'.spinup_options.combination = "or"
       /\ (call'.phase = 2 /\ call.phase # 2) => call.phase = 1
       /\ (call.phase = 2 /\ call'.phase # 2 /\ pc' # "error")
             => /\ pc' = "done"
                /\ result' = Returned(ReturnedByCall)
       /\ (AndRequest /\ pc' = "wait_new" /\ pc # "wait_new") => call'.phase \in {1, 2}
       /\ (AndRequest /\ pc' = "done" /\ pc # "done" /\ call.phase = 0)
             => is_run_matching_options(last_run_dir(RequestIndex), RequestOptions, TRUE)
      ]_vars

C28_Witness ==
    /\ AndRequest
    /\ pc = "wait_new"
    /\ call.phase = 2
    /\ call.run_dir[2] >= 1
    /\ job(<<call.run_dir[1], call.run_dir[2] - 1>>).years >= 2
    /\ job(<<call.run_dir[1], call.run_dir[2] - 1>>).tolerance = 0
    /\ job(call.run_dir).tolerance = model_options.spinup_options.tolerance
    /\ job(call.run_dir).tolerance > 0

(* C30: once the trajectories of the stencil points are read, the tracer offsets
   have been written once, by the first point; the list has one entry more than
   the request names tracers, starts at 0, does not decrease and ends at the
   length of the concatenated derivative; the unpacking raises no
   AssertionError, and each tracer gets the block of its recorded length. *)
C30_TracerOffsetsWrittenOnce ==
    (op.kind = "unpack" /\ pc \in {"unpack", "done", "error"})
        => LET indices == op.tracer_start_stop_indices
           IN /\ op.written = <<1>>
              /\ Len(indices) = Len(op.request.tracers) + 1
              /\ indices[1] = 0
              /\ \A k \in 1..(Len(indices) - 1) : indices[k] <= indices[k + 1]
              /\ indices[Len(indices)] = Len(df_concatenated(op.values))
              /\ pc # "error"
              /\ pc = "done"
                    => /\ Len(op.df) = Len(indices) - 1
                       /\ \A k \in DOMAIN op.df :
                             /\ Len(op.df[k].df_tracer) = indices[k + 1] - indices[k]
                             /\ Len(op.df[k].df_tracer) = trajectory_len(op.request, op.df[k].tracer)
                             /\ \A j \in DOMAIN op.df[k].df_tracer :
                                   op.df[k].df_tracer[j] = op.df[k].tracer

Resolving == pc \in {"enter", "wait_last", "wait_new"}

ResolutionEnded == pc \in {"done", "error"}

(* the batch system finishes every spinup job it was given *)
SpinupJobsEventuallyFinish ==
    \A i \in SetIndices, k \in 0..(InitRuns + 1) : WF_vars(job_finishes(i, k))

LastRunMatchesRequest ==
    is_run_matching_options(last_run_dir(db_index(parameters_db, model_options.parameters)),
                            model_options.spinup_options, TRUE)

(* C31: if the batch system finishes every job, a call of matching_run_dir
   ends, by return or by exception; it starts at most one spinup job for an
   "or" request and at most two for an "and" request, and a call that finds the
   last run matching returns at once with no job started. *)
C31_ResolutionTerminates ==
    /\ [](Len(submitted) <= IF AndRequest THEN 2 ELSE 1)
    /\ [][(pc = "enter" /\ call.phase = 0 /\ LastRunMatchesRequest)
             => (pc' = "done" /\ submitted' = <<>> /\ run_dirs' = run_dirs)]_vars
    /\ (SpinupJobsEventuallyFinish => (Resolving ~> ResolutionEnded))

C31_Witness ==
    /\ pc = "done"
    /\ AndRequest
    /\ Len(submitted) = 2
    /\ submitted[1].dir[1] = submitted[2].dir[1]
    /\ submitted[2].dir[2] = submitted[1].dir[2] + 1

(* C32: the run directories of a chain carry the indices 0..n-1;
   make_new_run_dir makes the directory of index n, which did not exist, and
   returns it; last_run_dir returns the directory of index n-1 (none for n = 0). *)
C32_ContiguousRunIndices ==
    op.kind = "run_dirs"
        => /\ op.dirs = 0..(Cardinality(op.dirs) - 1)
           /\ op.function = "make_new_run_dir"
                 => /\ result = Value("make_new_run_dir", Cardinality(op.before))
                    /\ Cardinality(op.before) \notin op.before
                    /\ op.dirs = op.before \cup {Cardinality(op.before)}
           /\ op.function = "last_run_dir"
                 => /\ result = Value("last_run_dir", Cardinality(op.dirs) - 1)
                    /\ op.dirs = op.before

SpinupJobsSubmittedInto(dir) ==
    Cardinality({k \in DOMAIN submitted : submitted[k] = [kind |-> "spinup", dir |-> dir]})

(* C33: when two processes resolve the same request that no run matches, no
   run directory gets two jobs and every run of the chain but the first was
   started from the output of the run before it. *)
C33_RaceKeepsChain ==
    op.kind = "race"
        => \A k \in 0..(Len(run_dirs[0]) - 1) :
              /\ SpinupJobsSubmittedInto(<<0, k>>) <= 1
              /\ (k > 0 /\ job(<<0, k>>).tracer_input # None)
                    => job(<<0, k>>).tracer_input = tracer_output_files(<<0, k - 1>>)

(* what a finished run has achieved and what it was started from *)
RunRecord(run) ==
    <<run.last_year, run.last_tolerance, run.years, run.tolerance, run.tracer_input, run.finished>>

(* C34: no step of a resolution or of a value or derivative operation removes
   a spinup run, changes what a finished run achieved or was started from, or
   starts a job in a run directory that exists: a spinup job goes into the
   directory appended by the same step. *)
C34_ChainAppendOnly ==
    [][/\ \A i \in SetIndices :
             /\ Len(run_dirs'[i]) >= Len(run_dirs[i])
             /\ \A k \in DOMAIN run_dirs[i] :
                   run_dirs[i][k].finished => RunRecord(run_dirs'[i][k]) = RunRecord(run_dirs[i][k])
       /\ \A k \in DOMAIN submitted' :
             (k \notin DOMAIN submitted /\ submitted'[k].kind = "spinup")
                 => /\ submitted'[k].dir[2] = Len(run_dirs[submitted'[k].dir[1]])
                    /\ Len(run_dirs'[submitted'[k].dir[1]]) = submitted'[k].dir[2] + 1
       /\ \A k \in DOMAIN submitted : submitted'[k] = submitted[k]
      ]_vars

C34_Witness ==
    /\ op.kind \in {"df_all", "df_points"}
    /\ pc = "done"
    /\ Len(op.run_dirs[0]) >= 1
    /\ Len(run_dirs[0]) = Len(op.run_dirs[0]) + 1
    /\ \A k \in DOMAIN op.run_dirs[0] : RunRecord(run_dirs[0][k]) = RunRecord(op.run_dirs[0][k])
    /\ \E k \in DOMAIN submitted : submitted[k].kind = "trajectory"
    /\ \E k \in DOMAIN submitted : submitted[k].kind = "derivative"

WarmStarted(run) == run.tracer_input # Initial /\ run.tracer_input # None

(* C35: a spinup job is started only from the output of a run whose job has
   finished: the step that starts a job in a new run directory finds the run
   it warm-starts from finished, and that run is the one waited for. *)
C35_WarmStartSourceFinished ==
    [][\A i \in SetIndices :
          Len(run_dirs'[i]) > Len(run_dirs[i])
              => LET new == run_dirs'[i][Len(run_dirs'[i])]
                     source == call.last_run_dir
                 IN WarmStarted(new)
                       => /\ pc = "wait_last"
                          /\ new.tracer_input = source
                          /\ job(source).finished
                          /\ RunRecord(run_dirs'[source[1]][source[2] + 1]) = RunRecord(job(source))
      ]_vars

C35_Witness ==
    /\ pc = "wait_last"
    /\ call.last_run_dir # None
    /\ call.last_run_dir[1] # db_index(parameters_db, model_options.parameters)
    /\ ~job(call.last_run_dir).finished
    /\ submitted = <<>>
    /\ run_dirs_of(db_index(parameters_db, model_options.parameters)) = <<>>

(* C36: in one derivative computation no partial derivative directory gets
   more than one job, and the job the computation started for a point is still
   the job of its directory, also when a point is evaluated twice or two points
   have one factor id. *)
C36_OneJobPerDirectory ==
    op.kind \in {"df_all", "df_points"}
        => /\ \A id \in FactorIds : JobsSubmittedInto(id) <= 1
           /\ op.stage # "none"
                 => \A k \in DOMAIN op.decisions :
                       op.decisions[k].decision = "submitted"
                           => /\ derivative_dirs[op.decisions[k].id].state = "job"
                              /\ derivative_dirs[op.decisions[k].id].parameters = op.decisions[k].point

(* C37: a partial derivative run that is reused was started from the spinup
   run the request resolves to, whatever requests came before. *)
C37_ReusedRunFromResolvedRun ==
    (op.kind = "reuse" /\ op.reused) => op.started_from = op.spinup_matching_run_dir

(* the tracers of a points mapping, as a set *)
PointsKeys == {op.request.tracers[k] : k \in DOMAIN op.request.tracers}

(* C38: f_points and df_points return a mapping whose tracers are exactly the
   tracers of the points mapping, so that every value has its derivative and
   no tracer is added. *)
C38_PointsResultKeys ==
    /\ (pc = "done" /\ op.kind = "f_points")
          => {op.f[k].tracer : k \in DOMAIN op.f} = PointsKeys
    /\ (pc = "done" /\ op.kind = "unpack" /\ op.request.kind = "df_points")
          => {op.df[k].tracer : k \in DOMAIN op.df} = PointsKeys

(* C39: every spinup job submitted by matching_run_dir is configured with a
   strictly positive number of years, also when the first run of an empty
   chain is started from the last run of the closest parameter set. *)
C39_SubmittedYearsPositive ==
    \A k \in DOMAIN submitted :
        submitted[k].kind = "spinup" => job(submitted[k].dir).years > 0

(* C40: is_matching_run_available is a pure query: it submits no job, makes
   no run directory and adds no entry to the store; all stored state is as
   before the call. *)
C40_QueryLeavesStoredState ==
    [][(pc = "idle" /\ result'.kind = "bool")
          => /\ parameters_db' = parameters_db
             /\ run_dirs' = run_dirs
             /\ submitted' = submitted
             /\ derivative_dirs' = derivative_dirs
             /\ open_jobs' = open_jobs]_vars
====
